---- MODULE Spec2Model ----
(***************************************************************************)
(* Model of the Investigator of Mun09/miri_back                            *)
(* (src/modules/investigator.py with src/law_api.py, src/llm_client.py,    *)
(* src/models.py, src/config.py).                                          *)
(*                                                                         *)
(* The external services (the law search API and the generative judgment   *)
(* service) are inputs: every response they can give is chosen with \E.    *)
(* Strings that the code compares by containment are sequences of          *)
(* characters (small naturals), so that `a in b` is a real substring test. *)
(***************************************************************************)
EXTENDS Integers, Sequences, FiniteSets, Bags, TLC

VARIABLES
    \* ---- Investigator._select_best_candidates
    sel_pc,           \* "idle" | "awaiting_llm" | "returned"
    sel_input,        \* the candidates argument
    sel_candidates,   \* the local `candidates` after the cap
    sel_response,     \* what json_repair.loads(response) gave
    sel_result,       \* the returned list
    \* ---- Investigator._plan_search
    plan_pc,          \* "idle" | "awaiting_llm" | "returned" | "raised"
    plan_response,    \* what json_repair.loads(response) gave
    plan_result,      \* the SearchStrategy returned
    \* ---- Investigator.execute and Investigator._process_action
    ctl_which,          \* "execute" | "process_action": the controller running
    ctl_pc,             \* position in the controller
    ctl_n_actions,      \* len(scenario.actions)
    ctl_action,         \* index of the Action being processed
    ctl_strategy,       \* strategy
    ctl_prec_keywords,  \* prec_keywords (the list object, as mutated)
    ctl_raw_data,       \* raw_data / raw_data_retry
    ctl_reviews,        \* execute: reviews; _process_action: final_evidence
    ctl_critic,         \* the critique results of this Action, in order
    ctl_search_log,     \* the keyword lists of every _search_phase call of this Action
    ctl_attempt,        \* _process_action: attempt
    ctl_all_reviews,    \* execute: all_reviews
    ctl_result,         \* execute: (LegalEvidence.relevant_laws, unique_reviews)
    \* ---- Investigator._extract_evidence and Investigator._analyze_full_text
    ext_pc,           \* "idle" | "gathering" | "returned" | "raised"
    ext_call,         \* number of the _extract_evidence call in progress (0: none yet)
    ext_batch,        \* raw_data of the calls
    ext_tasks,        \* the _analyze_full_text tasks of the call, in document order
    ext_cache,        \* self._analysis_cache: cache key -> list of review objects
    ext_heap,         \* the DocumentReview objects created so far, by identity
    ext_valid,        \* valid_reviews returned by the call
    ext_first,        \* what the first call returned per task, by value
    \* ---- the chunking of Investigator._analyze_full_text
    chk_pc,           \* "idle" | "done"
    chk_len,          \* len(text)
    chk_chunks,       \* chunks, each as the index range [start, end) of the text
    \* ---- the deduplication of Investigator.execute and Investigator._process_action
    agg_which,        \* "none" | "execute" | "process_action"
    agg_pc,           \* "idle" | "returned"
    agg_input,        \* the review lists, one per Action (execute) or per attempt (_process_action)
    agg_unique,       \* unique_reviews before the cap (execute), final_evidence (_process_action)
    agg_result,       \* what execute returns
    \* ---- NationalLawAPI._fetch: the response cache, the semaphore and the calls in flight
    fetch_cache,      \* self._cache: url -> parsed response or NotCached
    fetch_value,      \* free permits of self.semaphore
    fetch_tasks,      \* number of calls at each <<url, position>>
    fetch_started,    \* number of calls of _fetch so far
    fetch_last,       \* the last return of a call of _fetch
    \* ---- OpenAIClient.generate: the semaphore and the calls in flight
    gen_value,        \* free permits of self.semaphore
    gen_tasks,        \* bag of the calls in flight
    gen_started,      \* number of calls of generate so far
    gen_last,         \* the last end of a call of generate
    \* ---- one call of a function of the program on an input
    fn_pc,            \* "idle" | "called" | "returned"
    fn_input,         \* the argument
    fn_output,        \* the value returned
    \* ---- run_analysis_stream: the worker task, the queue and the consumer
    run_variant,      \* "pipeline" | "pipeline_test" | "miri": the function and mode running
    run_pc,           \* the await at which the worker is suspended, or "created" | "done"
    run_step,         \* sleeps finished (test mode) or messages logged by execute
    run_queue,        \* the items of the asyncio.Queue, oldest first
    run_consumer,     \* "waiting" (at queue.get) | "ended": the generator
    run_out           \* the items yielded so far

selVars == <<sel_pc, sel_input, sel_candidates, sel_response, sel_result>>
planVars == <<plan_pc, plan_response, plan_result>>
ctlVars == <<ctl_which, ctl_pc, ctl_n_actions, ctl_action, ctl_strategy, ctl_prec_keywords,
             ctl_raw_data, ctl_reviews, ctl_critic, ctl_search_log, ctl_attempt,
             ctl_all_reviews, ctl_result>>

extVars == <<ext_pc, ext_call, ext_batch, ext_tasks, ext_cache, ext_heap, ext_valid, ext_first>>

chkVars == <<chk_pc, chk_len, chk_chunks>>

aggVars == <<agg_which, agg_pc, agg_input, agg_unique, agg_result>>

fetchVars == <<fetch_cache, fetch_value, fetch_tasks, fetch_started, fetch_last>>

genVars == <<gen_value, gen_tasks, gen_started, gen_last>>

fnVars == <<fn_pc, fn_input, fn_output>>

runVars == <<run_variant, run_pc, run_step, run_queue, run_consumer, run_out>>

vars == <<selVars, planVars, ctlVars, extVars, chkVars, aggVars, fetchVars, genVars, fnVars, runVars>>
nonSelVars == <<planVars, ctlVars, extVars, chkVars, aggVars, fetchVars, genVars, fnVars, runVars>>
nonPlanVars == <<selVars, ctlVars, extVars, chkVars, aggVars, fetchVars, genVars, fnVars, runVars>>
nonCtlVars == <<selVars, planVars, extVars, chkVars, aggVars, fetchVars, genVars, fnVars, runVars>>
nonExtVars == <<selVars, planVars, ctlVars, chkVars, aggVars, fetchVars, genVars, fnVars, runVars>>
nonChkVars == <<selVars, planVars, ctlVars, extVars, aggVars, fetchVars, genVars, fnVars, runVars>>
nonAggVars == <<selVars, planVars, ctlVars, extVars, chkVars, fetchVars, genVars, fnVars, runVars>>
nonFetchVars == <<selVars, planVars, ctlVars, extVars, chkVars, aggVars, genVars, fnVars, runVars>>
nonGenVars == <<selVars, planVars, ctlVars, extVars, chkVars, aggVars, fetchVars, fnVars, runVars>>
nonFnVars == <<selVars, planVars, ctlVars, extVars, chkVars, aggVars, fetchVars, genVars, runVars>>
nonRunVars == <<selVars, planVars, ctlVars, extVars, chkVars, aggVars, fetchVars, genVars, fnVars>>

(***************************************************************************)
(* Generic helpers                                                         *)
(***************************************************************************)
\* Python's s[:n]
Take(s, n) == IF Len(s) > n THEN SubSeq(s, 1, n) ELSE s

\* Python's `s in t` for two strings
IsSubstr(s, t) ==
    /\ Len(s) <= Len(t)
    /\ \E i \in 0..(Len(t) - Len(s)) : SubSeq(t, i + 1, i + Len(s)) = s

Range(s) == {s[i] : i \in 1..Len(s)}

\* all sequences over S of length 0..n
RECURSIVE SeqsUpTo(_, _)
SeqsUpTo(S, n) ==
    IF n = 0 THEN {<<>>}
    ELSE LET shorter == SeqsUpTo(S, n - 1)
         IN  shorter \cup {Append(s, x) : s \in {t \in shorter : Len(t) = n - 1}, x \in S}

(***************************************************************************)
(* Names (display names of candidates, names returned by the selector)     *)
(***************************************************************************)
LaborAct == <<1, 2>>       \* "근로기준법"
LaborActDecree == <<1, 2, 3>>    \* "근로기준법 시행령"
CivilAct == <<4>>          \* "민법"
Unlisted == <<5>>          \* a name no candidate carries
EmptyStr == <<>>           \* ""
PlaceholderStr == <<6, 7>>       \* "{}": str() of the parsed failure placeholder
NoneName == <<-1>>         \* an item with neither 법령명한글 nor 행정규칙명 (None)
NotAString == <<-2>>         \* a list element that is not a string (e.g. 3)

(***************************************************************************)
(* Investigator._select_best_candidates                                    *)
(***************************************************************************)
SelectorCap == 30        \* candidates[:30]
SelectorFallback == 10   \* candidates[:10]

\* inner loop of the name matching: the index of the first item that matches
\* `name`, 0 when none does, -1 when the containment test raises TypeError
\* (a non-string name, or an item whose name is None)
RECURSIVE ScanItems(_, _, _)
ScanItems(name, candidates, k) ==
    IF k > Len(candidates) THEN 0
    ELSE IF name = NotAString \/ candidates[k].name = NoneName THEN -1
    ELSE IF IsSubstr(name, candidates[k].name) \/ IsSubstr(candidates[k].name, name)
         THEN k
    ELSE ScanItems(name, candidates, k + 1)

\* the item appended to final_items for a matched name
MatchedItemInvented(name, item) == [uid |-> 0, name |-> name]
MatchedItem(name, item) == item

\* outer loop: [raised, items]
RECURSIVE MatchNames(_, _, _, _)
MatchNames(selected_names, candidates, j, final_items) ==
    IF j > Len(selected_names) THEN [raised |-> FALSE, items |-> final_items]
    ELSE LET k == ScanItems(selected_names[j], candidates, 1)
         IN  IF k = -1 THEN [raised |-> TRUE, items |-> final_items]
             ELSE MatchNames(selected_names, candidates, j + 1,
                     IF k = 0 THEN final_items
                     ELSE Append(final_items, MatchedItem(selected_names[j], candidates[k])))

\* the cap applied before the judgment service is asked
CapCandidatesNoCap(candidates) == candidates
CapCandidates(candidates) == Take(candidates, SelectorCap)

\* what the function returns once the response has been parsed
SelectFromResponse(candidates, resp) ==
    IF resp.kind = "raise" THEN Take(candidates, SelectorFallback)
    ELSE LET selected_names == IF resp.kind = "list" THEN resp.names ELSE <<resp.str>>
             m == MatchNames(selected_names, candidates, 1, <<>>)
         IN  IF m.raised \/ m.items = <<>>
             THEN Take(candidates, SelectorFallback)
             ELSE m.items

\* ---- inputs
MaxCands == 31           \* longest candidate list tried
MaxSelected == 2         \* longest list of names the selector returns

CandNames == {LaborAct, LaborActDecree, CivilAct, NoneName}
RespNames == {LaborAct, LaborActDecree, CivilAct, Unlisted, NotAString}

\* a list of n items: names alternate a, b, a, b, ...; the last item is named z
CandList(n, a, b, z) ==
    [i \in 1..n |-> [uid |-> i,
                     name |-> IF i = n THEN z ELSE IF i % 2 = 1 THEN a ELSE b]]

CandLens == {0, 1, 2, 3, SelectorFallback + 1, SelectorCap, MaxCands}

CandidateLists ==
    {CandList(n, a, b, z) : n \in CandLens, a \in CandNames, b \in CandNames, z \in CandNames}

SelectorResponses ==
    {[kind |-> "list", names |-> ns, str |-> EmptyStr] : ns \in SeqsUpTo(RespNames, MaxSelected)}
    \cup {[kind |-> "nonlist", names |-> <<>>, str |-> s] : s \in {PlaceholderStr, LaborAct, EmptyStr}}
    \cup {[kind |-> "raise", names |-> <<>>, str |-> EmptyStr]}

NoResponse == [kind |-> "none", names |-> <<>>, str |-> EmptyStr]

SelInit ==
    /\ sel_pc = "idle"
    /\ sel_input \in CandidateLists
    /\ sel_candidates = <<>>
    /\ sel_response = NoResponse
    /\ sel_result = <<>>

\* entry: empty input returns at once; otherwise cap, build the prompt, call the service
SelectCall ==
    /\ sel_pc = "idle"
    /\ IF sel_input = <<>>
       THEN /\ sel_pc' = "returned"
            /\ sel_result' = <<>>
            /\ UNCHANGED sel_candidates
       ELSE /\ sel_pc' = "awaiting_llm"
            /\ sel_candidates' = CapCandidates(sel_input)
            /\ UNCHANGED sel_result
    /\ UNCHANGED <<sel_input, sel_response>>
    /\ UNCHANGED nonSelVars

\* the judgment service answered and the answer was parsed (or parsing raised)
SelectReturn ==
    /\ sel_pc = "awaiting_llm"
    /\ \E resp \in SelectorResponses :
          /\ sel_response' = resp
          /\ sel_result' = SelectFromResponse(sel_candidates, resp)
    /\ sel_pc' = "returned"
    /\ UNCHANGED <<sel_input, sel_candidates>>
    /\ UNCHANGED nonSelVars

SelNext == SelectCall \/ SelectReturn

\* the selector when another component is exercised
SelIdle ==
    /\ sel_pc = "idle"
    /\ sel_input = <<>>
    /\ sel_candidates = <<>>
    /\ sel_response = NoResponse
    /\ sel_result = <<>>

(***************************************************************************)
(* Investigator._plan_search and models.SearchStrategy                     *)
(***************************************************************************)
Absent == "__absent__"            \* the key is not in the parsed object
BadType == "__badtype__"          \* the value cannot be validated as the field's type
AbsentList == <<Absent>>
BadTypeList == <<BadType>>

NoStrategy == [rationale |-> "", databases |-> <<>>, focus_keywords |-> <<>>]

\* SearchStrategy(rationale=..., databases=[...]) of the except branch
DefaultStrategyTwoSources ==
    [rationale |-> "Error in strategy planning",
     databases |-> <<"law", "admrul">>, focus_keywords |-> <<>>]
DefaultStrategy ==
    [rationale |-> "Error in strategy planning",
     databases |-> <<"law", "admrul", "prec">>, focus_keywords |-> <<>>]

\* pydantic's validation of SearchStrategy(**data): rationale is required,
\* databases and focus_keywords have defaults
StrategyValidates(data) ==
    /\ data.rationale \notin {Absent, BadType}
    /\ data.databases # BadTypeList
    /\ data.focus_keywords # BadTypeList

SearchStrategy(data) ==
    [rationale |-> data.rationale,
     databases |-> IF data.databases = AbsentList THEN <<"law", "admrul">> ELSE data.databases,
     focus_keywords |-> IF data.focus_keywords = AbsentList THEN <<>> ELSE data.focus_keywords]

\* the try/except of _plan_search: [raised, strategy]
PlanFromResponseNoExcept(resp) ==
    IF resp.kind = "dict" /\ StrategyValidates(resp)
    THEN [raised |-> FALSE, strategy |-> SearchStrategy(resp)]
    ELSE [raised |-> TRUE, strategy |-> NoStrategy]
PlanFromResponse(resp) ==
    IF resp.kind = "dict" /\ StrategyValidates(resp)
    THEN [raised |-> FALSE, strategy |-> SearchStrategy(resp)]
    ELSE [raised |-> FALSE, strategy |-> DefaultStrategy]

\* ---- inputs
Databases == {"law", "admrul", "prec"}
MaxFocus == 1            \* longest focus_keywords list the service returns
FocusWords == {"kw1"}

\* database lists the service may name: no repetition, any order, possibly empty
DatabaseLists == {s \in SeqsUpTo(Databases, 3) : \A i, j \in 1..Len(s) : i # j => s[i] # s[j]}

\* {} is the failure placeholder of llm_client.generate
PlaceholderObject ==
    [kind |-> "dict", rationale |-> Absent, databases |-> AbsentList, focus_keywords |-> AbsentList]

StrategyResponses ==
    {[kind |-> "dict", rationale |-> r, databases |-> d, focus_keywords |-> f] :
        r \in {Absent, BadType, "rationale"},
        d \in {AbsentList, BadTypeList} \cup DatabaseLists,
        f \in {AbsentList, BadTypeList} \cup SeqsUpTo(FocusWords, MaxFocus)}
    \cup {[kind |-> k, rationale |-> Absent, databases |-> AbsentList, focus_keywords |-> AbsentList] :
             k \in {"nondict", "raise"}}

NoPlanResponse ==
    [kind |-> "none", rationale |-> Absent, databases |-> AbsentList, focus_keywords |-> AbsentList]

PlanIdle ==
    /\ plan_pc = "idle"
    /\ plan_response = NoPlanResponse
    /\ plan_result = NoStrategy

\* format the prompt and call the judgment service
PlanCall ==
    /\ plan_pc = "idle"
    /\ plan_pc' = "awaiting_llm"
    /\ UNCHANGED <<plan_response, plan_result>>
    /\ UNCHANGED nonPlanVars

\* the response is parsed and validated, or the default is returned
PlanReturn ==
    /\ plan_pc = "awaiting_llm"
    /\ \E resp \in StrategyResponses :
          LET r == PlanFromResponse(resp)
          IN  /\ plan_response' = resp
              /\ plan_result' = r.strategy
              /\ plan_pc' = IF r.raised THEN "raised" ELSE "returned"
    /\ UNCHANGED nonPlanVars

PlanNext == PlanCall \/ PlanReturn

(***************************************************************************)
(* Documents and reviews                                                   *)
(***************************************************************************)
MAX_ANALYSIS_DOCS == 20
MinTextLen == 50         \* _extract_evidence skips texts shorter than this

ActionText == "act"      \* action.action of the Action under investigation

\* models.DocumentReview
DocumentReview(law_name, key_clause, status, url) ==
    [law_name |-> law_name, key_clause |-> key_clause, status |-> status,
     summary |-> "summary", url |-> url]

\* one raw document of collected_raw_data: (category, title, text, url, raw_data);
\* the text is kept as its length
RawDoc(category, title, text_len, url) ==
    [category |-> category, title |-> title, text_len |-> text_len, url |-> url]

\* what one extraction call of the judgment service gives once parsed:
\* "malformed" (the placeholder, a non-object, an object that does not validate)
\* or an object whose status is the given word
\* "jungnip" stands for the Korean word 중립 (module strings are ASCII)
NeutralWords == {"Neutral", "neutral", "jungnip"}
ExtVerdicts == {"malformed", "Prohibited", "Neutral", "jungnip"}

\* the parse-and-filter step after every extraction call; neutral_word is the
\* literal the branch compares the status with
ParseReview(verdict, neutral_word, law_name, key_clause, url) ==
    IF verdict # "malformed" /\ verdict # neutral_word
    THEN <<DocumentReview(law_name, key_clause, verdict, url)>>
    ELSE <<>>

\* _analyze_full_text, category 'ai_result': one call, compared with 'Neutral'
AnalyzeAiResult(doc, verdict) ==
    ParseReview(verdict, "Neutral", doc.title[1], doc.title[2], doc.url)

RECURSIVE Flatten(_)
Flatten(ss) == IF ss = <<>> THEN <<>> ELSE Head(ss) \o Flatten(Tail(ss))

\* s repeated n times
RECURSIVE Repeat(_, _)
Repeat(s, n) == IF n <= 0 THEN <<>> ELSE s \o Repeat(s, n - 1)

(***************************************************************************)
(* Investigator._search_phase                                              *)
(***************************************************************************)
\* a hit of law_api.ai_search: law_name, article_title, content (length), link
AiHit(law_name, article_title, content_len, link) ==
    [law_name |-> law_name, article_title |-> article_title,
     content_len |-> content_len, link |-> link]

\* first-seen order without repetition; keys[i] is the key of items[i]
RECURSIVE DedupBy(_, _, _, _)
DedupBy(items, keys, seen, acc) ==
    IF items = <<>> THEN acc
    ELSE IF Head(keys) \in seen THEN DedupBy(Tail(items), Tail(keys), seen, acc)
    ELSE DedupBy(Tail(items), Tail(keys), seen \cup {Head(keys)}, Append(acc, Head(items)))

\* whether law_api.get_content_from_item can be called: src/law_api.py defines
\* no such method (its return statement is stranded after _parse_law_structure)
HasGetContentFromItem == FALSE

\* [Limit] Max Documents
LimitDocsOff(collected_raw_data) == collected_raw_data
LimitDocs(collected_raw_data) ==
    IF Len(collected_raw_data) > MAX_ANALYSIS_DOCS
    THEN SubSeq(collected_raw_data, 1, MAX_ANALYSIS_DOCS)
    ELSE collected_raw_data

\* ext: the external outcomes of one phase
\*   gen       the queries _generate_ai_queries got (<<>>: failure or none)
\*   ai_hits   the hits every ai_search task returns
\*   prec_hits the items every precedent search_list task returns
\*   sel       the selector's parsed response
\* same_list: keywords and prec_keywords are one list object
SearchPhase(keywords, prec_keywords, same_list, strategy, ext) ==
    LET focus == strategy.focus_keywords
        kws == IF focus = <<>> THEN keywords
               ELSE IF same_list THEN keywords \o focus \o focus
               ELSE keywords \o focus
        pkws == IF focus = <<>> THEN prec_keywords
                ELSE IF same_list THEN kws
                ELSE prec_keywords \o focus
        dbs == Range(strategy.databases)
        use_ai == "law" \in dbs \/ "admrul" \in dbs
        generated == IF ext.gen = <<>> THEN <<ActionText>> ELSE ext.gen
        ai_queries == IF ~use_ai THEN <<>> ELSE IF kws # <<>> THEN kws ELSE generated
        n_scopes == (IF "law" \in dbs THEN 1 ELSE 0) + (IF "admrul" \in dbs THEN 1 ELSE 0)
        n_search_tasks == Len(ai_queries) * n_scopes
        hit_docs == [i \in 1..Len(ext.ai_hits) |->
                        RawDoc("ai_result",
                               <<ext.ai_hits[i].law_name, ext.ai_hits[i].article_title>>,
                               ext.ai_hits[i].content_len, ext.ai_hits[i].link)]
        collected_ai == Repeat(hit_docs, n_search_tasks)
        found_law_titles == {collected_ai[i].title[1] : i \in 1..Len(collected_ai)}
        n_titles == IF Cardinality(found_law_titles) > 2 THEN 2 ELSE Cardinality(found_law_titles)
        n_prec_tasks == IF "prec" \in dbs THEN n_titles * Len(pkws) + Len(pkws) ELSE 0
        prec_results == Repeat(ext.prec_hits, n_prec_tasks)
        HasId(item) == item.uid # 0
        with_id == SelectSeq(prec_results, HasId)
        prec_candidates == DedupBy(with_id, [i \in 1..Len(with_id) |-> with_id[i].uid], {}, <<>>)
        target_precs == IF prec_candidates # <<>>
                        THEN SelectFromResponse(CapCandidates(Take(prec_candidates, 30)), ext.sel)
                        ELSE <<>>
        fetch_raises == target_precs # <<>> /\ ~HasGetContentFromItem
        prec_docs == [i \in 1..Len(target_precs) |->
                        RawDoc("prec", <<target_precs[i].name, "">>, 100, "prec-url")]
        collected_raw_data == collected_ai \o prec_docs
    IN  [raised |-> fetch_raises,
         raw_data |-> LimitDocs(collected_raw_data),
         keywords |-> kws,
         prec_keywords |-> pkws,
         ai_queries |-> ai_queries]

\* ---- inputs of a search phase
HitA == AiHit("LawA", "art1", 100, "urlA")
HitB == AiHit("LawB", "art2", 30, "urlB")      \* content too short to be analysed
PrecItem == [uid |-> 7, name |-> CivilAct]      \* 판례일련번호 7
PrecItemNoId == [uid |-> 0, name |-> CivilAct]  \* no 판례일련번호

SearchOutcomes ==
    [gen : {<<>>, <<"q1">>},
     ai_hits : {<<>>, <<HitA, HitB>>},
     prec_hits : {<<>>, <<PrecItemNoId>>, <<PrecItem>>},
     sel : {[kind |-> "nonlist", names |-> <<>>, str |-> PlaceholderStr],
            [kind |-> "list", names |-> <<CivilAct>>, str |-> EmptyStr]}]

(***************************************************************************)
(* Investigator._extract_evidence as the controller sees it: every         *)
(* document long enough is analysed and the reviews are concatenated in   *)
(* document order. The documents a search phase can deliver here are      *)
(* 'ai_result' articles; `verdict` is what the judgment service (or the    *)
(* Analysis Cache) says about them.                                        *)
(***************************************************************************)
ExtractEvidence(raw_data, verdict) ==
    LET LongEnough(doc) == doc.text_len >= MinTextLen
        docs == SelectSeq(raw_data, LongEnough)
    IN  Flatten([i \in 1..Len(docs) |-> AnalyzeAiResult(docs[i], verdict)])

(***************************************************************************)
(* Investigator._critique                                                  *)
(***************************************************************************)
\* parsed responses: an object (any status word, with or without keywords),
\* a non-object, or a parse that raises
CritiqueResponses ==
    {[kind |-> "dict", status |-> st, new_keywords |-> nk] :
        st \in {"PASS", "FAIL", "RETRY"}, nk \in {<<>>, <<"kw2">>}}
    \cup {[kind |-> "dict", status |-> Absent, new_keywords |-> AbsentList]}
    \cup {[kind |-> k, status |-> Absent, new_keywords |-> AbsentList] : k \in {"nondict", "raise"}}

\* the dict _critique returns
CritiqueRetriesOnFailure(resp) ==
    IF resp.kind = "dict" /\ resp.status # Absent
    THEN [status |-> resp.status, new_keywords |-> resp.new_keywords]
    ELSE [status |-> "RETRY", new_keywords |-> <<"kw2">>]
Critique(resp) ==
    IF resp.kind = "dict"
    THEN [status |-> resp.status, new_keywords |-> resp.new_keywords]
    ELSE [status |-> "PASS", new_keywords |-> <<>>]

\* dict.get('new_keywords', [])
GetNewKeywords(critic_res) ==
    IF critic_res.new_keywords = AbsentList THEN <<>> ELSE critic_res.new_keywords

(***************************************************************************)
(* Investigator.execute and Investigator._process_action                   *)
(***************************************************************************)
max_retries == 1         \* _process_action
HardLimit == 50          \* execute: unique_reviews[:50]

MaxActions == 2          \* longest scenario tried

NoResult == [relevant_laws |-> <<>>, reviews |-> <<>>]

\* strategies the planner step can yield in a run of the controller
CtlStrategyResponses ==
    {PlaceholderObject,
     [kind |-> "dict", rationale |-> "rationale", databases |-> <<"law">>,
      focus_keywords |-> <<"kw1">>],
     [kind |-> "dict", rationale |-> "rationale", databases |-> <<"prec">>,
      focus_keywords |-> AbsentList]}

\* _generate_prec_keywords: cleaned keywords, [] on failure
PrecKeywordLists == {<<>>, <<"pk1">>}

\* execute's aggregation: dedup by (law_name, key_clause), cap, display lines
ReviewKey(r) == <<r.law_name, r.key_clause>>

\* f"- {r.law_name} {r.key_clause}: {r.summary}"
DisplayLine(r) == "- " \o r.law_name \o " " \o r.key_clause \o ": " \o r.summary

\* the dedup loop of execute
UniqueReviews(all_reviews) ==
    DedupBy(all_reviews, [i \in 1..Len(all_reviews) |-> ReviewKey(all_reviews[i])], {}, <<>>)

AggregateNoCap(all_reviews) ==
    LET unique_reviews == UniqueReviews(all_reviews)
    IN  [relevant_laws |-> [i \in 1..Len(unique_reviews) |-> DisplayLine(unique_reviews[i])],
         reviews |-> unique_reviews]
Aggregate(all_reviews) ==
    LET unique_reviews == Take(UniqueReviews(all_reviews), HardLimit)
    IN  [relevant_laws |-> [i \in 1..Len(unique_reviews) |-> DisplayLine(unique_reviews[i])],
         reviews |-> unique_reviews]

\* _process_action's dedup key: f"{r.law_name}-{r.key_clause}"
JoinedKey(r) == r.law_name \o "-" \o r.key_clause

\* _process_action's dedup of the new reviews of one attempt into final_evidence
MergeEvidence(final_evidence, new_reviews) ==
    DedupBy(new_reviews, [i \in 1..Len(new_reviews) |-> JoinedKey(new_reviews[i])],
            {JoinedKey(final_evidence[i]) : i \in 1..Len(final_evidence)}, final_evidence)

RECURSIVE MergeAll(_, _)
MergeAll(final_evidence, lists) ==
    IF lists = <<>> THEN final_evidence
    ELSE MergeAll(MergeEvidence(final_evidence, Head(lists)), Tail(lists))

\* ---- the two deduplications on their own
MaxReviews == 52        \* longest review list tried
MaxPerList == 2          \* longest short list

Review(law_name, key_clause, status, url) ==
    [law_name |-> law_name, key_clause |-> key_clause, status |-> status,
     summary |-> "summary of " \o url, url |-> url]

\* short lists: two reviews of one clause that differ in URL, status and
\* summary, a review of another clause, and a review whose names hold a hyphen
SmallReviews ==
    {Review("A", "B-C", "Prohibited", "url1"), Review("A", "B-C", "Permitted", "url2"),
     Review("X", "Y", "Conditional", "url3"), Review("A-B", "C", "Prohibited", "url4")}

\* n reviews whose names repeat with period m
Numbered(n, m) ==
    [i \in 1..n |-> Review("L" \o ToString(((i - 1) % m) + 1), "c", "Prohibited",
                           "u" \o ToString(i))]

AggInputs ==
    {<<a>> : a \in SeqsUpTo(SmallReviews, MaxPerList)}
    \cup {<<a, b>> : a, b \in SeqsUpTo(SmallReviews, MaxPerList)}
    \cup {<<Numbered(n, m)>> : n \in (HardLimit - 1)..MaxReviews,
                               m \in {1, HardLimit - 1, HardLimit, HardLimit + 1}}

AggIdle ==
    /\ agg_which = "none"
    /\ agg_pc = "idle"
    /\ agg_input = <<>>
    /\ agg_unique = <<>>
    /\ agg_result = NoResult

AggInit ==
    /\ agg_which = "none"
    /\ agg_pc = "idle"
    /\ agg_input \in AggInputs
    /\ agg_unique = <<>>
    /\ agg_result = NoResult

\* execute, from "중복 제거" to the return
AggExecute ==
    /\ agg_pc = "idle"
    /\ agg_which' = "execute"
    /\ agg_unique' = UniqueReviews(Flatten(agg_input))
    /\ agg_result' = Aggregate(Flatten(agg_input))
    /\ agg_pc' = "returned"
    /\ UNCHANGED agg_input
    /\ UNCHANGED nonAggVars

\* _process_action: the dedup of every attempt's reviews into final_evidence
AggProcessAction ==
    /\ agg_pc = "idle"
    /\ agg_which' = "process_action"
    /\ agg_unique' = MergeAll(<<>>, agg_input)
    /\ agg_pc' = "returned"
    /\ UNCHANGED <<agg_input, agg_result>>
    /\ UNCHANGED nonAggVars

AggNext == AggExecute \/ AggProcessAction

CtlIdle ==
    /\ ctl_which = "none"
    /\ ctl_pc = "idle"
    /\ ctl_n_actions = 0
    /\ ctl_action = 0
    /\ ctl_strategy = NoStrategy
    /\ ctl_prec_keywords = <<>>
    /\ ctl_raw_data = <<>>
    /\ ctl_reviews = <<>>
    /\ ctl_critic = <<>>
    /\ ctl_search_log = <<>>
    /\ ctl_attempt = 0
    /\ ctl_all_reviews = <<>>
    /\ ctl_result = NoResult

CtlInit ==
    /\ ctl_which \in {"execute", "process_action"}
    /\ ctl_pc = "start"
    /\ ctl_n_actions \in (IF ctl_which = "execute" THEN 0..MaxActions ELSE {1})
    /\ ctl_action = 1
    /\ ctl_strategy = NoStrategy
    /\ ctl_prec_keywords = <<>>
    /\ ctl_raw_data = <<>>
    /\ ctl_reviews = <<>>
    /\ ctl_critic = <<>>
    /\ ctl_search_log = <<>>
    /\ ctl_attempt = 0
    /\ ctl_all_reviews = <<>>
    /\ ctl_result = NoResult

\* one entry of ctl_search_log
LogEntry(r) == [keywords |-> r.keywords, prec_keywords |-> r.prec_keywords,
                ai_queries |-> r.ai_queries]

\* execute: the test that starts the additional search
ExecuteRetries(critique) == critique.status = "RETRY"

\* _process_action: whether the for-loop runs another attempt after this critique
RunsAnotherAttemptUnbounded(attempt, critic_res) ==
    /\ critic_res.status # "PASS"
    /\ GetNewKeywords(critic_res) # <<>>
RunsAnotherAttempt(attempt, critic_res) ==
    /\ critic_res.status # "PASS"
    /\ ~(attempt > 0)
    /\ GetNewKeywords(critic_res) # <<>>
    /\ attempt + 1 < max_retries + 1

\* ---- execute
\* loop head and step (1): the strategy of the next Action
ExecPlan ==
    /\ ctl_which = "execute" /\ ctl_pc = "start" /\ ctl_action <= ctl_n_actions
    /\ \E resp \in CtlStrategyResponses :
          LET r == PlanFromResponse(resp)
          IN  /\ ctl_strategy' = r.strategy
              /\ ctl_pc' = IF r.raised THEN "raised" ELSE "prec_kw"
    /\ ctl_prec_keywords' = <<>>
    /\ ctl_raw_data' = <<>>
    /\ ctl_reviews' = <<>>
    /\ ctl_critic' = <<>>
    /\ ctl_search_log' = <<>>
    /\ UNCHANGED <<ctl_which, ctl_n_actions, ctl_action, ctl_attempt, ctl_all_reviews, ctl_result>>
    /\ UNCHANGED nonCtlVars

\* step (2): prec_keywords
ExecPrecKeywords ==
    /\ ctl_which = "execute" /\ ctl_pc = "prec_kw"
    /\ ctl_prec_keywords' \in PrecKeywordLists
    /\ ctl_pc' = "search"
    /\ UNCHANGED <<ctl_which, ctl_n_actions, ctl_action, ctl_strategy, ctl_raw_data, ctl_reviews,
                   ctl_critic, ctl_search_log, ctl_attempt, ctl_all_reviews, ctl_result>>
    /\ UNCHANGED nonCtlVars

\* step (3): _search_phase(keywords = [], prec_keywords, ...)
ExecSearch ==
    /\ ctl_which = "execute" /\ ctl_pc = "search"
    /\ \E ext \in SearchOutcomes :
          LET r == SearchPhase(<<>>, ctl_prec_keywords, FALSE, ctl_strategy, ext)
          IN  /\ ctl_search_log' = Append(ctl_search_log, LogEntry(r))
              /\ ctl_prec_keywords' = r.prec_keywords
              /\ ctl_raw_data' = IF r.raised THEN ctl_raw_data ELSE r.raw_data
              /\ ctl_pc' = IF r.raised THEN "raised" ELSE "extract"
    /\ UNCHANGED <<ctl_which, ctl_n_actions, ctl_action, ctl_strategy, ctl_reviews, ctl_critic,
                   ctl_attempt, ctl_all_reviews, ctl_result>>
    /\ UNCHANGED nonCtlVars

\* reviews = _extract_evidence(raw_data, action)
ExecExtract ==
    /\ ctl_which = "execute" /\ ctl_pc = "extract"
    /\ \E verdict \in ExtVerdicts :
          ctl_reviews' = ExtractEvidence(ctl_raw_data, verdict)
    /\ ctl_pc' = "critique"
    /\ UNCHANGED <<ctl_which, ctl_n_actions, ctl_action, ctl_strategy, ctl_prec_keywords,
                   ctl_raw_data, ctl_critic, ctl_search_log, ctl_attempt, ctl_all_reviews,
                   ctl_result>>
    /\ UNCHANGED nonCtlVars

\* step (4): the critique; without a retry the Action's reviews join all_reviews
ExecCritique ==
    /\ ctl_which = "execute" /\ ctl_pc = "critique"
    /\ \E resp \in CritiqueResponses :
          LET critique == Critique(resp)
          IN  /\ ctl_critic' = Append(ctl_critic, critique)
              /\ IF ExecuteRetries(critique)
                 THEN /\ ctl_pc' = "retry_search"
                      /\ UNCHANGED <<ctl_action, ctl_all_reviews>>
                 ELSE /\ ctl_pc' = "start"
                      /\ ctl_action' = ctl_action + 1
                      /\ ctl_all_reviews' = ctl_all_reviews \o ctl_reviews
    /\ UNCHANGED <<ctl_which, ctl_n_actions, ctl_strategy, ctl_prec_keywords, ctl_raw_data,
                   ctl_reviews, ctl_search_log, ctl_attempt, ctl_result>>
    /\ UNCHANGED nonCtlVars

\* _search_phase(new_kws, new_kws, ...): both parameters are the critique's list
ExecRetrySearch ==
    /\ ctl_which = "execute" /\ ctl_pc = "retry_search"
    /\ \E ext \in SearchOutcomes :
          LET new_kws == GetNewKeywords(ctl_critic[Len(ctl_critic)])
              r == SearchPhase(new_kws, new_kws, TRUE, ctl_strategy, ext)
          IN  /\ ctl_search_log' = Append(ctl_search_log, LogEntry(r))
              /\ ctl_raw_data' = IF r.raised THEN ctl_raw_data ELSE r.raw_data
              /\ ctl_pc' = IF r.raised THEN "raised" ELSE "retry_extract"
    /\ UNCHANGED <<ctl_which, ctl_n_actions, ctl_action, ctl_strategy, ctl_prec_keywords,
                   ctl_reviews, ctl_critic, ctl_attempt, ctl_all_reviews, ctl_result>>
    /\ UNCHANGED nonCtlVars

\* reviews.extend(reviews_retry); all_reviews.extend(reviews)
ExecRetryExtract ==
    /\ ctl_which = "execute" /\ ctl_pc = "retry_extract"
    /\ \E verdict \in ExtVerdicts :
          LET reviews == ctl_reviews \o ExtractEvidence(ctl_raw_data, verdict)
          IN  /\ ctl_reviews' = reviews
              /\ ctl_all_reviews' = ctl_all_reviews \o reviews
    /\ ctl_action' = ctl_action + 1
    /\ ctl_pc' = "start"
    /\ UNCHANGED <<ctl_which, ctl_n_actions, ctl_strategy, ctl_prec_keywords, ctl_raw_data,
                   ctl_critic, ctl_search_log, ctl_attempt, ctl_result>>
    /\ UNCHANGED nonCtlVars

\* after the last Action: dedup, cap, display lines, return
ExecReturn ==
    /\ ctl_which = "execute" /\ ctl_pc = "start" /\ ctl_action > ctl_n_actions
    /\ ctl_result' = Aggregate(ctl_all_reviews)
    /\ ctl_pc' = "returned"
    /\ UNCHANGED <<ctl_which, ctl_n_actions, ctl_action, ctl_strategy, ctl_prec_keywords,
                   ctl_raw_data, ctl_reviews, ctl_critic, ctl_search_log, ctl_attempt,
                   ctl_all_reviews>>
    /\ UNCHANGED nonCtlVars

\* ---- _process_action
PaPrecKeywords ==
    /\ ctl_which = "process_action" /\ ctl_pc = "start"
    /\ ctl_prec_keywords' \in PrecKeywordLists
    /\ ctl_pc' = "pa_plan"
    /\ UNCHANGED <<ctl_which, ctl_n_actions, ctl_action, ctl_strategy, ctl_raw_data, ctl_reviews,
                   ctl_critic, ctl_search_log, ctl_attempt, ctl_all_reviews, ctl_result>>
    /\ UNCHANGED nonCtlVars

PaPlan ==
    /\ ctl_which = "process_action" /\ ctl_pc = "pa_plan"
    /\ \E resp \in CtlStrategyResponses :
          LET r == PlanFromResponse(resp)
          IN  /\ ctl_strategy' = r.strategy
              /\ ctl_pc' = IF r.raised THEN "raised" ELSE "pa_search"
    /\ UNCHANGED <<ctl_which, ctl_n_actions, ctl_action, ctl_prec_keywords, ctl_raw_data,
                   ctl_reviews, ctl_critic, ctl_search_log, ctl_attempt, ctl_all_reviews,
                   ctl_result>>
    /\ UNCHANGED nonCtlVars

\* loop body, search: the critique's keywords on the retry, [] on the first pass
PaSearch ==
    /\ ctl_which = "process_action" /\ ctl_pc = "pa_search"
    /\ \E ext \in SearchOutcomes :
          LET current_ai_keywords ==
                  IF ctl_attempt > 0 THEN GetNewKeywords(ctl_critic[Len(ctl_critic)]) ELSE <<>>
              r == SearchPhase(current_ai_keywords, ctl_prec_keywords, FALSE, ctl_strategy, ext)
          IN  /\ ctl_search_log' = Append(ctl_search_log, LogEntry(r))
              /\ ctl_prec_keywords' = r.prec_keywords
              /\ ctl_raw_data' = IF r.raised THEN ctl_raw_data ELSE r.raw_data
              /\ ctl_pc' = IF r.raised THEN "raised" ELSE "pa_extract"
    /\ UNCHANGED <<ctl_which, ctl_n_actions, ctl_action, ctl_strategy, ctl_reviews, ctl_critic,
                   ctl_attempt, ctl_all_reviews, ctl_result>>
    /\ UNCHANGED nonCtlVars

\* loop body, extract and dedup into final_evidence
PaExtract ==
    /\ ctl_which = "process_action" /\ ctl_pc = "pa_extract"
    /\ \E verdict \in ExtVerdicts :
          ctl_reviews' = MergeEvidence(ctl_reviews, ExtractEvidence(ctl_raw_data, verdict))
    /\ ctl_pc' = "pa_critique"
    /\ UNCHANGED <<ctl_which, ctl_n_actions, ctl_action, ctl_strategy, ctl_prec_keywords,
                   ctl_raw_data, ctl_critic, ctl_search_log, ctl_attempt, ctl_all_reviews,
                   ctl_result>>
    /\ UNCHANGED nonCtlVars

\* loop body, critique and the breaks; the loop's end returns final_evidence
PaCritique ==
    /\ ctl_which = "process_action" /\ ctl_pc = "pa_critique"
    /\ \E resp \in CritiqueResponses :
          LET critic_res == Critique(resp)
          IN  /\ ctl_critic' = Append(ctl_critic, critic_res)
              /\ IF RunsAnotherAttempt(ctl_attempt, critic_res)
                 THEN /\ ctl_attempt' = ctl_attempt + 1
                      /\ ctl_pc' = "pa_search"
                      /\ UNCHANGED ctl_result
                 ELSE /\ ctl_pc' = "returned"
                      /\ ctl_result' = [relevant_laws |-> <<>>, reviews |-> ctl_reviews]
                      /\ UNCHANGED ctl_attempt
    /\ UNCHANGED <<ctl_which, ctl_n_actions, ctl_action, ctl_strategy, ctl_prec_keywords,
                   ctl_raw_data, ctl_reviews, ctl_search_log, ctl_all_reviews>>
    /\ UNCHANGED nonCtlVars

CtlNext ==
    \/ ExecPlan \/ ExecPrecKeywords \/ ExecSearch \/ ExecExtract \/ ExecCritique
    \/ ExecRetrySearch \/ ExecRetryExtract \/ ExecReturn
    \/ PaPrecKeywords \/ PaPlan \/ PaSearch \/ PaExtract \/ PaCritique
(***************************************************************************)
(* Investigator._analyze_full_text and Investigator._extract_evidence      *)
(***************************************************************************)
DirectLimit == 5000      \* len(text) < 5000: direct analysis
chunk_size == 4000
overlap == 300
IndexScanMin == 5        \* len(articles) > 5: index scan

\* a document handed to _analyze_full_text. raw_data is kept as what the code
\* reads from it: the id _get_unique_id finds ("Unknown" when none), the number
\* of articles _parse_law_structure yields, the length of the text the
\* precedent shortcut builds from them, and whether its shape makes
\* _get_unique_id ("id") or _parse_law_structure ("parse") raise.
Doc(category, name, text_len, url, doc_id, n_articles, combined_len, fault) ==
    [category |-> category, title |-> <<name, "">>, text_len |-> text_len, url |-> url,
     doc_id |-> doc_id, n_articles |-> n_articles, combined_len |-> combined_len,
     fault |-> fault]

\* cache_key = (action.action, doc_id)
CacheKey(kind, id, title, url) ==
    [action |-> ActionText, kind |-> kind, id |-> id, title |-> title, url |-> url]

\* the key of a call; raw_known is FALSE in the recursive call, made with raw_data = {}
KeyOf(doc, raw_known) ==
    IF doc.category = "ai_result" THEN CacheKey("AI", "", doc.title, doc.url)
    ELSE IF raw_known /\ doc.doc_id # "Unknown" THEN CacheKey("ID", doc.doc_id, <<"", "">>, "")
    ELSE CacheKey("TU", "", doc.title, doc.url)

\* the step of range(0, len(text), chunk_size - overlap)
ChunkStepNoOverlap == chunk_size
ChunkStep == chunk_size - overlap

\* range(0, len(text), chunk_size - overlap)
NumChunks(text_len) == (text_len + ChunkStep - 1) \div ChunkStep

\* chunks = [text[i:i+chunk_size] for i in range(0, len(text), chunk_size - overlap)]
Chunks(text_len) ==
    [c \in 1..NumChunks(text_len) |->
        LET start == (c - 1) * ChunkStep
        IN  [start |-> start,
             end |-> IF start + chunk_size < text_len THEN start + chunk_size ELSE text_len]]

\* ---- inputs: lengths of texts that reach the chunking (len(text) >= 5000)
MaxChunkSteps == 6       \* longest text tried, in steps
ChunkOffsets == {0, 1, 2, overlap - 1, overlap, overlap + 1, 1300, 2000, 3000, ChunkStep - 1}
ChunkLens ==
    {n \in {m * ChunkStep + d : m \in 1..MaxChunkSteps, d \in ChunkOffsets} : n >= DirectLimit}

ChkIdle ==
    /\ chk_pc = "idle"
    /\ chk_len = 0
    /\ chk_chunks = <<>>

ChkInit ==
    /\ chk_pc = "idle"
    /\ chk_len \in ChunkLens
    /\ chk_chunks = <<>>

\* the text is split
SplitText ==
    /\ chk_pc = "idle"
    /\ chk_chunks' = Chunks(chk_len)
    /\ chk_pc' = "done"
    /\ UNCHANGED chk_len
    /\ UNCHANGED nonChkVars

ChkNext == SplitText

\* no answer to the table-of-contents call (yet)
NoToc == [kind |-> "none", indices |-> <<>>]

\* toc: the parsed answer to the table-of-contents call of the task
\* hit: the call (or its recursive call) found its key in the cache
\* depth: the number of recursive calls of _analyze_full_text below the task's call
NoTask ==
    [pc |-> "start", key |-> CacheKey("", "", <<"", "">>, ""), doc |-> 0, text_len |-> 0,
     arts |-> <<>>, chunks |-> <<>>, reviews |-> <<>>, result |-> <<>>, llm_calls |-> 0,
     toc |-> NoToc, hit |-> FALSE, depth |-> 0]

\* the branch taken on the length of the text: direct analysis or chunking
ByTextLength(task, text_len) ==
    IF text_len < DirectLimit
    THEN [task EXCEPT !.pc = "direct_llm", !.text_len = text_len, !.llm_calls = @ + 1]
    ELSE [task EXCEPT !.pc = "chunk_llm", !.text_len = text_len,
                      !.chunks = [c \in 1..NumChunks(text_len) |-> "pending"],
                      !.llm_calls = @ + NumChunks(text_len)]

\* r.url = url for every cached review
PatchUrlsSkipped(heap, ids, url) == heap
PatchUrls(heap, ids, url) ==
    [h \in 1..Len(heap) |-> IF h \in Range(ids) THEN [heap[h] EXCEPT !.url = url] ELSE heap[h]]

\* the synchronous head of _analyze_full_text, up to its first await or return:
\* [task, heap]
\* the text of the recursive call of the precedent shortcut: combined_text
RecursionTextRaw(doc) == doc.text_len
RecursionText(doc) == doc.combined_len

\* raw_known is FALSE in the recursive call, made with raw_data = {}: then
\* _get_unique_id gives "Unknown" and _parse_law_structure gives no article
RECURSIVE AnalyzeHead(_, _, _, _, _, _)
AnalyzeHead(task, doc, text_len, raw_known, cache, heap) ==
    LET t0 == [task EXCEPT !.key = KeyOf(doc, raw_known)]
        n_articles == IF raw_known THEN doc.n_articles ELSE 0
        Hit(key) == [task |-> [t0 EXCEPT !.pc = "done", !.result = cache[key], !.hit = TRUE],
                     heap |-> PatchUrls(heap, cache[key], doc.url)]
        Miss(t) == [task |-> t, heap |-> heap]
    IN  IF doc.category # "ai_result" /\ raw_known /\ doc.fault = "id"
        THEN Miss([t0 EXCEPT !.pc = "raised"])
        ELSE IF t0.key \in DOMAIN cache THEN Hit(t0.key)
        ELSE IF doc.category = "ai_result"
        THEN Miss([t0 EXCEPT !.pc = "ai_llm", !.llm_calls = 1])
        ELSE IF raw_known /\ doc.fault = "parse" THEN Miss([t0 EXCEPT !.pc = "raised"])
        ELSE IF doc.category = "prec" /\ n_articles > 0
        THEN AnalyzeHead([t0 EXCEPT !.depth = @ + 1], doc, RecursionText(doc), FALSE, cache, heap)
        ELSE IF n_articles > IndexScanMin
        THEN Miss([t0 EXCEPT !.pc = "toc_llm", !.llm_calls = 1])
        ELSE Miss(ByTextLength(t0, text_len))

StartTask(d, doc, cache, heap) ==
    AnalyzeHead([NoTask EXCEPT !.doc = d], doc, doc.text_len, TRUE, cache, heap)

\* the tasks of one _extract_evidence call started in document order:
\* [tasks, heap]
RECURSIVE StartTasks(_, _, _, _, _)
StartTasks(batch, d, cache, heap, tasks) ==
    IF d > Len(batch) THEN [tasks |-> tasks, heap |-> heap]
    ELSE IF batch[d].text_len < MinTextLen
    THEN StartTasks(batch, d + 1, cache, heap, tasks)
    ELSE LET st == StartTask(d, batch[d], cache, heap)
         IN  StartTasks(batch, d + 1, cache, st.heap, Append(tasks, st.task))

\* reviews appended after one extraction call: [ids, heap]
NewReviews(heap, verdict, neutral_word, law_name, key_clause, url) ==
    LET parsed == ParseReview(verdict, neutral_word, law_name, key_clause, url)
    IN  [ids |-> [k \in 1..Len(parsed) |-> Len(heap) + k], heap |-> heap \o parsed]

\* the literal each branch compares the status with
AiNeutralWord == "Neutral"
ArticleNeutralWord == "Neutral"
DirectNeutralWord == "jungnip"
ChunkNeutralWord == "Neutral"

\* whether the direct-analysis branch stores its reviews in the cache
DirectWritesCache == FALSE

\* ---- inputs
MaxBatch == 2            \* longest raw_data tried
MaxCalls == 2            \* _extract_evidence calls in a run
NumArticles == 6         \* articles of the document that is index-scanned

AiDoc ==
    [category |-> "ai_result", title |-> <<"LawA", "art1">>, text_len |-> 100, url |-> "urlA",
     doc_id |-> "Unknown", n_articles |-> 0, combined_len |-> 0, fault |-> "none"]
ShortLaw == Doc("law", "ShortLaw", 100, "urlS", "id1", 3, 0, "none")
LongLaw == Doc("law", "LongLaw", 5000, "urlL", "Unknown", 3, 0, "none")
BigRule == Doc("admrul", "BigRule", 9000, "urlB", "id2", NumArticles, 0, "none")
PrecDoc == Doc("prec", "Prec", 9000, "urlP", "id3", 2, 200, "none")
OddLaw == Doc("law", "OddLaw", 100, "urlO", "Unknown", 0, 0, "id")
TinyLaw == Doc("law", "TinyLaw", 30, "urlT", "id4", 1, 0, "none")

ExtDocs == {AiDoc, ShortLaw, LongLaw, BigRule, PrecDoc, OddLaw, TinyLaw}

\* the documents tried next to another one in a batch
SiblingDocs == {AiDoc, ShortLaw, OddLaw}

\* a document of any kind, alone or followed by a sibling; longer batches
\* start with the AI article and go on with more AI articles
RECURSIVE BatchesOf(_)
BatchesOf(n) ==
    IF n = 1 THEN {<<d>> : d \in ExtDocs}
    ELSE IF n = 2
    THEN BatchesOf(1) \cup {Append(b, d) : b \in BatchesOf(1), d \in SiblingDocs}
    ELSE BatchesOf(n - 1) \cup {Append(b, AiDoc) : b \in {x \in BatchesOf(n - 1) :
                                                          Len(x) = n - 1 /\ x[1] = AiDoc}}

ExtBatches == BatchesOf(MaxBatch)

\* parsed answers to the table-of-contents call: a list of entries (an index in
\* range, one out of range, a non-integer, a repeated index, more than five
\* indices), a non-list, or a parse that raises
TocResponses ==
    {[kind |-> "list", indices |-> ix] :
        ix \in {<<>>, <<0>>, <<0, NumArticles>>, <<2, -1>>, <<NumArticles, -1>>,
                 <<1, 1>>, [k \in 1..(IndexScanMin + 1) |-> k - 1]}}
    \cup {[kind |-> k, indices |-> <<>>] : k \in {"nonlist", "raise"}}

ExtIdle ==
    /\ ext_pc = "idle"
    /\ ext_call = 0
    /\ ext_batch = <<>>
    /\ ext_tasks = <<>>
    /\ ext_cache = <<>>
    /\ ext_heap = <<>>
    /\ ext_valid = <<>>
    /\ ext_first = <<>>

ExtInit ==
    /\ ext_pc = "idle"
    /\ ext_call = 0
    /\ ext_batch \in ExtBatches
    /\ ext_tasks = <<>>
    /\ ext_cache = <<>>
    /\ ext_heap = <<>>
    /\ ext_valid = <<>>
    /\ ext_first = <<>>

TaskDoc(i) == ext_batch[ext_tasks[i].doc]

\* self._analysis_cache[cache_key] = reviews
CacheWrite(cache, key, ids) ==
    [k \in DOMAIN cache \cup {key} |-> IF k = key THEN ids ELSE cache[k]]

\* the same documents as a later call may present them: as before, or all
\* reached through another URL
AltUrl == "urlX"
Revisits(batch) ==
    {batch, [d \in 1..Len(batch) |-> [batch[d] EXCEPT !.url = AltUrl]]}

\* _extract_evidence is called: the tasks are created and each runs to its
\* first await; with no task the call returns []
ExtCall ==
    /\ ext_pc \in {"idle", "returned"}
    /\ ext_call < MaxCalls
    /\ \E batch \in (IF ext_call = 1 THEN Revisits(ext_batch) ELSE {ext_batch}) :
          LET st == StartTasks(batch, 1, ext_cache, ext_heap, <<>>)
          IN  /\ ext_batch' = batch
              /\ ext_tasks' = st.tasks
              /\ ext_heap' = st.heap
              /\ ext_pc' = IF st.tasks = <<>> THEN "returned" ELSE "gathering"
    /\ ext_call' = ext_call + 1
    /\ ext_valid' = <<>>
    /\ UNCHANGED <<ext_cache, ext_first>>
    /\ UNCHANGED nonExtVars

\* 'ai_result': the answer is parsed, the result is cached and returned
AiReturn ==
    \E i \in 1..Len(ext_tasks) :
        /\ ext_tasks[i].pc = "ai_llm"
        /\ \E verdict \in ExtVerdicts :
              LET doc == TaskDoc(i)
                  n == NewReviews(ext_heap, verdict, AiNeutralWord, doc.title[1], doc.title[2], doc.url)
              IN  /\ ext_heap' = n.heap
                  /\ ext_cache' = CacheWrite(ext_cache, ext_tasks[i].key, n.ids)
                  /\ ext_tasks' = [ext_tasks EXCEPT ![i].pc = "done", ![i].result = n.ids]
        /\ UNCHANGED <<ext_pc, ext_call, ext_batch, ext_valid, ext_first>>
        /\ UNCHANGED nonExtVars

\* index scan, nothing selected: the document is skipped, return []
EmptySelectionFallsThrough(task, text_len) ==
    ByTextLength(task, text_len)
EmptySelection(task, text_len) ==
    [task EXCEPT !.pc = "done", !.result = <<>>]

\* [articles[i] for i in selected_indices if isinstance(i, int) and 0 <= i < len(articles)]
TargetArticles(resp, n_articles) ==
    LET InRange(x) == x >= 0 /\ x < n_articles
    IN  IF resp.kind = "list" THEN SelectSeq(resp.indices, InRange) ELSE <<>>

\* index scan: the answer to the table-of-contents call
TocReturn ==
    \E i \in 1..Len(ext_tasks) :
        /\ ext_tasks[i].pc = "toc_llm"
        /\ \E resp \in TocResponses :
              LET doc == TaskDoc(i)
                  task == [ext_tasks[i] EXCEPT !.toc = resp]
                  target_articles == TargetArticles(resp, doc.n_articles)
              IN  IF resp.kind = "raise"
                  THEN /\ ext_tasks' = [ext_tasks EXCEPT ![i] = ByTextLength(task, doc.text_len)]
                       /\ UNCHANGED ext_cache
                  ELSE IF target_articles # <<>>
                  THEN /\ ext_tasks' = [ext_tasks EXCEPT ![i] =
                                           [task EXCEPT !.pc = "art_llm",
                                                        !.arts = target_articles,
                                                        !.llm_calls = @ + 1]]
                       /\ UNCHANGED ext_cache
                  ELSE /\ ext_cache' = CacheWrite(ext_cache, task.key, <<>>)
                       /\ ext_tasks' = [ext_tasks EXCEPT ![i] = EmptySelection(task, doc.text_len)]
        /\ UNCHANGED <<ext_pc, ext_call, ext_batch, ext_heap, ext_valid, ext_first>>
        /\ UNCHANGED nonExtVars

\* index scan: the answer about one selected article; after the last one the
\* reviews are cached and returned
ArticleReturn ==
    \E i \in 1..Len(ext_tasks) :
        /\ ext_tasks[i].pc = "art_llm"
        /\ \E verdict \in ExtVerdicts :
              LET doc == TaskDoc(i)
                  t == ext_tasks[i]
                  n == NewReviews(ext_heap, verdict, ArticleNeutralWord, doc.title[1],
                                  ToString(Head(t.arts)), doc.url)
                  reviews == t.reviews \o n.ids
              IN  /\ ext_heap' = n.heap
                  /\ IF Len(t.arts) > 1
                     THEN /\ ext_tasks' = [ext_tasks EXCEPT ![i].arts = Tail(@),
                                                            ![i].reviews = reviews,
                                                            ![i].llm_calls = @ + 1]
                          /\ UNCHANGED ext_cache
                     ELSE /\ ext_tasks' = [ext_tasks EXCEPT ![i].pc = "done", ![i].arts = <<>>,
                                                            ![i].reviews = reviews,
                                                            ![i].result = reviews]
                          /\ ext_cache' = CacheWrite(ext_cache, t.key, reviews)
        /\ UNCHANGED <<ext_pc, ext_call, ext_batch, ext_valid, ext_first>>
        /\ UNCHANGED nonExtVars

\* direct analysis of a short text: the reviews are returned
DirectReturn ==
    \E i \in 1..Len(ext_tasks) :
        /\ ext_tasks[i].pc = "direct_llm"
        /\ \E verdict \in ExtVerdicts :
              LET doc == TaskDoc(i)
                  n == NewReviews(ext_heap, verdict, DirectNeutralWord, doc.title[1], "clause", doc.url)
              IN  /\ ext_heap' = n.heap
                  /\ ext_tasks' = [ext_tasks EXCEPT ![i].pc = "done", ![i].result = n.ids]
                  /\ ext_cache' = IF DirectWritesCache
                                  THEN CacheWrite(ext_cache, ext_tasks[i].key, n.ids)
                                  ELSE ext_cache
        /\ UNCHANGED <<ext_pc, ext_call, ext_batch, ext_valid, ext_first>>
        /\ UNCHANGED nonExtVars

\* the merge after the gather of the chunk calls: [ids, heap]
RECURSIVE MergeChunks(_, _, _, _, _)
MergeChunks(chunks, c, doc, heap, ids) ==
    IF c > Len(chunks) THEN [ids |-> ids, heap |-> heap]
    ELSE LET n == NewReviews(heap, chunks[c], ChunkNeutralWord, doc.title[1], "clause", doc.url)
         IN  MergeChunks(chunks, c + 1, doc, n.heap, ids \o n.ids)

\* chunked analysis: the answer about one chunk; when the last answer is in,
\* the results are merged in chunk order, cached and returned
ChunkReturn ==
    \E i \in 1..Len(ext_tasks) :
        /\ ext_tasks[i].pc = "chunk_llm"
        /\ \E c \in 1..Len(ext_tasks[i].chunks), verdict \in ExtVerdicts :
              /\ ext_tasks[i].chunks[c] = "pending"
              /\ LET chunks == [ext_tasks[i].chunks EXCEPT ![c] = verdict]
                     m == MergeChunks(chunks, 1, TaskDoc(i), ext_heap, <<>>)
                 IN  IF \E k \in 1..Len(chunks) : chunks[k] = "pending"
                     THEN /\ ext_tasks' = [ext_tasks EXCEPT ![i].chunks = chunks]
                          /\ UNCHANGED <<ext_heap, ext_cache>>
                     ELSE /\ ext_tasks' = [ext_tasks EXCEPT ![i].pc = "done", ![i].chunks = chunks,
                                                            ![i].reviews = m.ids, ![i].result = m.ids]
                          /\ ext_heap' = m.heap
                          /\ ext_cache' = CacheWrite(ext_cache, ext_tasks[i].key, m.ids)
        /\ UNCHANGED <<ext_pc, ext_call, ext_batch, ext_valid, ext_first>>
        /\ UNCHANGED nonExtVars

\* the reviews of a list of objects, by value
Values(heap, ids) == [k \in 1..Len(ids) |-> heap[ids[k]]]

\* asyncio.gather returned: the results are concatenated in task order
GatherReturn ==
    /\ ext_pc = "gathering"
    /\ \A i \in 1..Len(ext_tasks) : ext_tasks[i].pc = "done"
    /\ ext_valid' = Flatten([i \in 1..Len(ext_tasks) |-> ext_tasks[i].result])
    /\ ext_first' = IF ext_call = 1
                    THEN [i \in 1..Len(ext_tasks) |-> Values(ext_heap, ext_tasks[i].result)]
                    ELSE ext_first
    /\ ext_pc' = "returned"
    /\ UNCHANGED <<ext_call, ext_batch, ext_tasks, ext_cache, ext_heap>>
    /\ UNCHANGED nonExtVars

\* asyncio.gather re-raises the exception of a task: _extract_evidence raises
GatherRaise ==
    /\ ext_pc = "gathering"
    /\ \E i \in 1..Len(ext_tasks) : ext_tasks[i].pc = "raised"
    /\ ext_pc' = "raised"
    /\ UNCHANGED <<ext_call, ext_batch, ext_tasks, ext_cache, ext_heap, ext_valid, ext_first>>
    /\ UNCHANGED nonExtVars

ExtNext ==
    \/ ExtCall
    \/ AiReturn
    \/ TocReturn
    \/ ArticleReturn
    \/ DirectReturn
    \/ ChunkReturn
    \/ GatherReturn
    \/ GatherRaise

(***************************************************************************)
(* NationalLawAPI._fetch                                                   *)
(*                                                                         *)
(* The calls of _fetch run as tasks of one event loop; a call is at        *)
(* "waiting" (for a permit), at "get" (the request is out, the status line *)
(* has not arrived) or at "text" (status 200, the body is being read).     *)
(* Calls at the same position for the same URL are interchangeable, so the *)
(* state keeps their number.                                               *)
(***************************************************************************)
FetchPermits == 5        \* asyncio.Semaphore(5)
MaxFetches == 7          \* calls of _fetch in one run

FetchUrls == {"urlA", "urlB"}
FetchPositions == {"waiting", "get", "text"}

\* what the server can answer
StatusCodes == {200, 404, 500}
Bodies == {"<Law>1</Law>", "<Law>2</Law>", "<Law>", ""}
WellFormed == {"<Law>1</Law>", "<Law>2</Law>"}

\* a Python dict; {} is the dict without entries
Mapping(entries) == [type |-> "dict", entries |-> entries]
EmptyMapping == Mapping("")
NotCached == [type |-> "absent"]
NoValue == [type |-> "none"]

\* xmltodict.parse: a dict for a well-formed document, an exception otherwise
XmlParse(content) ==
    IF content \in WellFormed THEN [raised |-> FALSE, value |-> Mapping(content)]
    ELSE [raised |-> TRUE, value |-> NoValue]

\* how a call ends: by a return of a value or by an exception leaving _fetch
Returned(value) == [outcome |-> "returned", value |-> value]
Raised == [outcome |-> "raised", value |-> NoValue]

\* except Exception as e: print, return {}
OnFetchExceptionRaises == Raised
OnFetchException == Returned(EmptyMapping)

NoFetch == [url |-> "", event |-> "none", network |-> FALSE, content |-> "",
            outcome |-> "none", value |-> NoValue]
FetchEnd(url, event, network, content, how) ==
    [url |-> url, event |-> event, network |-> network, content |-> content,
     outcome |-> how.outcome, value |-> how.value]

Move(tasks, url, from, to) ==
    [t \in DOMAIN tasks |->
        IF t = <<url, from>> THEN tasks[t] - 1
        ELSE IF t = <<url, to>> THEN tasks[t] + 1
        ELSE tasks[t]]
Leave(tasks, url, from) ==
    [tasks EXCEPT ![<<url, from>>] = @ - 1]

\* asyncio.Semaphore.locked(): no permit is free
LockedNever(value) == FALSE
Locked(value) == value <= 0

FetchIdle ==
    /\ fetch_cache = <<>>
    /\ fetch_value = 0
    /\ fetch_tasks = <<>>
    /\ fetch_started = 0
    /\ fetch_last = NoFetch

FetchInit ==
    /\ fetch_cache = [u \in FetchUrls |-> NotCached]
    /\ fetch_value = FetchPermits
    /\ fetch_tasks = [t \in FetchUrls \X FetchPositions |-> 0]
    /\ fetch_started = 0
    /\ fetch_last = NoFetch

\* if url in self._cache
InCacheNever(cache, url) == FALSE
InCache(cache, url) == cache[url] # NotCached

\* a task calls _fetch(url): the cache check, then the entry of
\* "async with self.semaphore", with no suspension in between
FetchCall ==
    /\ fetch_started < MaxFetches
    /\ \E url \in FetchUrls :
          /\ fetch_started' = fetch_started + 1
          /\ IF InCache(fetch_cache, url)
             THEN /\ fetch_last' = FetchEnd(url, "cached", FALSE, "", Returned(fetch_cache[url]))
                  /\ UNCHANGED <<fetch_value, fetch_tasks>>
             ELSE IF ~Locked(fetch_value)
             THEN /\ fetch_value' = fetch_value - 1
                  /\ fetch_tasks' = [fetch_tasks EXCEPT ![<<url, "get">>] = @ + 1]
                  /\ UNCHANGED fetch_last
             ELSE /\ fetch_tasks' = [fetch_tasks EXCEPT ![<<url, "waiting">>] = @ + 1]
                  /\ UNCHANGED <<fetch_value, fetch_last>>
    /\ UNCHANGED fetch_cache
    /\ UNCHANGED nonFetchVars

\* a waiting call gets a permit and sends its request (it does not look at
\* the cache again)
FetchAcquire ==
    /\ ~Locked(fetch_value)
    /\ \E url \in FetchUrls :
          /\ fetch_tasks[<<url, "waiting">>] > 0
          /\ fetch_tasks' = Move(fetch_tasks, url, "waiting", "get")
    /\ fetch_value' = fetch_value - 1
    /\ UNCHANGED <<fetch_cache, fetch_started, fetch_last>>
    /\ UNCHANGED nonFetchVars

\* session.get(url) answers with a status other than 200: return {}
FetchBadStatus ==
    /\ \E url \in FetchUrls, status \in StatusCodes \ {200} :
          /\ fetch_tasks[<<url, "get">>] > 0
          /\ fetch_tasks' = Leave(fetch_tasks, url, "get")
          /\ fetch_last' = FetchEnd(url, "status", TRUE, "", Returned(EmptyMapping))
    /\ fetch_value' = fetch_value + 1
    /\ UNCHANGED <<fetch_cache, fetch_started>>
    /\ UNCHANGED nonFetchVars

\* session.get(url) answers with status 200: await response.text()
FetchOkStatus ==
    /\ \E url \in FetchUrls :
          /\ fetch_tasks[<<url, "get">>] > 0
          /\ fetch_tasks' = Move(fetch_tasks, url, "get", "text")
    /\ UNCHANGED <<fetch_cache, fetch_value, fetch_started, fetch_last>>
    /\ UNCHANGED nonFetchVars

\* the connection fails while the request is out or while the body is read
FetchTransportError ==
    /\ \E url \in FetchUrls, at \in {"get", "text"} :
          /\ fetch_tasks[<<url, at>>] > 0
          /\ fetch_tasks' = Leave(fetch_tasks, url, at)
          /\ fetch_last' = FetchEnd(url, "transport", TRUE, "", OnFetchException)
    /\ fetch_value' = fetch_value + 1
    /\ UNCHANGED <<fetch_cache, fetch_started>>
    /\ UNCHANGED nonFetchVars

\* the body has arrived: parse it, store it, return it
FetchBody ==
    /\ \E url \in FetchUrls, content \in Bodies :
          /\ fetch_tasks[<<url, "text">>] > 0
          /\ fetch_tasks' = Leave(fetch_tasks, url, "text")
          /\ LET parsed == XmlParse(content)
             IN  IF parsed.raised
                 THEN /\ fetch_last' = FetchEnd(url, "parse", TRUE, content, OnFetchException)
                      /\ UNCHANGED fetch_cache
                 ELSE /\ fetch_cache' = [fetch_cache EXCEPT ![url] = parsed.value]
                      /\ fetch_last' = FetchEnd(url, "ok", TRUE, content, Returned(parsed.value))
    /\ fetch_value' = fetch_value + 1
    /\ UNCHANGED fetch_started
    /\ UNCHANGED nonFetchVars

FetchNext ==
    \/ FetchCall
    \/ FetchAcquire
    \/ FetchBadStatus
    \/ FetchOkStatus
    \/ FetchTransportError
    \/ FetchBody

(***************************************************************************)
(* OpenAIClient.generate                                                   *)
(*                                                                         *)
(* A call is at "waiting" (for a permit), at "create" (attempt `attempt`   *)
(* is out) or at "sleep" (asyncio.sleep(delay) after attempt `attempt`).   *)
(* Calls in the same situation are interchangeable: the state is a bag.    *)
(***************************************************************************)
LlmPermits == 3          \* asyncio.Semaphore(3)
llm_max_retries == 3     \* max_retries of generate
base_delay == 1          \* seconds
MaxGenerates == 4        \* calls of generate in one run

\* str(e) of the exceptions of client.chat.completions.create, as sequences
\* of pieces; a digit is a piece of its own
RateLimitError ==
    [status |-> 429,
     text |-> <<"Error code: ", "4", "2", "9", " - ", "Rate limit reached", " code: ", "rate_limit", "_exceeded">>]
RateLimitErrorUpper ==
    [status |-> 429, text |-> <<"RATE_LIMIT", " exceeded">>]
APITimeoutError ==
    [status |-> 0, text |-> <<"Request timed out.">>]
AuthenticationError ==
    [status |-> 401, text |-> <<"Error code: ", "4", "0", "1", " - ", "Incorrect API key">>]
ContextLengthError ==
    [status |-> 400,
     text |-> <<"Error code: ", "4", "0", "0", " - ", "your messages resulted in ",
                "1", "4", "2", "9", "7", " tokens">>]
CreateErrors ==
    {RateLimitError, RateLimitErrorUpper, APITimeoutError, AuthenticationError, ContextLengthError}

\* str.lower() on the pieces
Lower(piece) ==
    IF piece = "RATE_LIMIT" THEN "rate_limit"
    ELSE IF piece = "Error code: " THEN "error code: "
    ELSE IF piece = "Rate limit reached" THEN "rate limit reached"
    ELSE IF piece = "Request timed out." THEN "request timed out."
    ELSE IF piece = "Incorrect API key" THEN "incorrect api key"
    ELSE piece
LowerStr(text) == [i \in 1..Len(text) |-> Lower(text[i])]

\* "rate_limit" in error_str.lower() or "429" in error_str
LooksRateLimitedNever(e) == FALSE
LooksRateLimited(e) ==
    \/ IsSubstr(<<"rate_limit">>, LowerStr(e.text))
    \/ IsSubstr(<<"4", "2", "9">>, e.text)

\* what a completed create() can hold: choices[0].message.content
Completions == {"{\"a\": 1}", "  {\"a\": 1}\n", "None", "no choices"}
\* response.choices[0].message.content.strip()
Content(completion) ==
    IF completion \in {"None", "no choices"}
    THEN [raised |-> TRUE, value |-> NoValue,
          error |-> [status |-> 0, text |-> <<"'NoneType' object has no attribute 'strip'">>]]
    ELSE [raised |-> FALSE, value |-> [type |-> "str", text |-> "{\"a\": 1}"],
          error |-> [status |-> 0, text |-> <<>>]]

Placeholder == [type |-> "str", text |-> "{}"]

\* delay = base_delay * (2 ** attempt)
RECURSIVE Pow2(_)
Pow2(n) == IF n = 0 THEN 1 ELSE 2 * Pow2(n - 1)
BackoffDelayConstant(attempt) == base_delay
BackoffDelay(attempt) == base_delay * Pow2(attempt)

NoError == [status |-> 0, text |-> <<>>]
GenTask(pc, attempt, slept, error) ==
    [pc |-> pc, attempt |-> attempt, slept |-> slept, error |-> error]
NoGenerate == [event |-> "none", attempt |-> 0, slept |-> <<>>, error |-> NoError,
               outcome |-> "none", value |-> NoValue]
GenEnd(event, task, error, how) ==
    [event |-> event, attempt |-> task.attempt, slept |-> task.slept, error |-> error,
     outcome |-> how.outcome, value |-> how.value]

One(t) == SetToBag({t})

GenIdle ==
    /\ gen_value = 0
    /\ gen_tasks = EmptyBag
    /\ gen_started = 0
    /\ gen_last = NoGenerate

GenInit ==
    /\ gen_value = LlmPermits
    /\ gen_tasks = EmptyBag
    /\ gen_started = 0
    /\ gen_last = NoGenerate

\* a task calls generate: "async with self.semaphore", then the first create
GenCall ==
    /\ gen_started < MaxGenerates
    /\ gen_started' = gen_started + 1
    /\ IF ~Locked(gen_value)
       THEN /\ gen_value' = gen_value - 1
            /\ gen_tasks' = gen_tasks (+) One(GenTask("create", 0, <<>>, NoError))
       ELSE /\ gen_tasks' = gen_tasks (+) One(GenTask("waiting", 0, <<>>, NoError))
            /\ UNCHANGED gen_value
    /\ UNCHANGED gen_last
    /\ UNCHANGED nonGenVars

\* a waiting call gets a permit and sends its first create
GenAcquire ==
    /\ ~Locked(gen_value)
    /\ BagIn(GenTask("waiting", 0, <<>>, NoError), gen_tasks)
    /\ gen_value' = gen_value - 1
    /\ gen_tasks' = (gen_tasks (-) One(GenTask("waiting", 0, <<>>, NoError)))
                       (+) One(GenTask("create", 0, <<>>, NoError))
    /\ UNCHANGED <<gen_started, gen_last>>
    /\ UNCHANGED nonGenVars

\* the except branch for exception e of attempt task.attempt: sleep and
\* continue, or print and return "{}"
GenFailFreesPermitInBackoff(task, e) ==
    IF LooksRateLimited(e) /\ task.attempt < llm_max_retries - 1
    THEN /\ gen_tasks' = (gen_tasks (-) One(task))
                            (+) One(GenTask("sleep", task.attempt,
                                            Append(task.slept, BackoffDelay(task.attempt)), e))
         /\ gen_value' = gen_value + 1
         /\ UNCHANGED gen_last
    ELSE /\ gen_tasks' = gen_tasks (-) One(task)
         /\ gen_value' = gen_value + 1
         /\ gen_last' = GenEnd("error", task, e, Returned(Placeholder))
GenFailKeepsPermit(task, e) ==
    IF LooksRateLimited(e) /\ task.attempt < llm_max_retries - 1
    THEN /\ gen_tasks' = (gen_tasks (-) One(task))
                            (+) One(GenTask("sleep", task.attempt,
                                            Append(task.slept, BackoffDelay(task.attempt)), e))
         /\ UNCHANGED <<gen_value, gen_last>>
    ELSE /\ gen_tasks' = gen_tasks (-) One(task)
         /\ UNCHANGED gen_value
         /\ gen_last' = GenEnd("error", task, e, Returned(Placeholder))
GenFail(task, e) ==
    IF LooksRateLimited(e) /\ task.attempt < llm_max_retries - 1
    THEN /\ gen_tasks' = (gen_tasks (-) One(task))
                            (+) One(GenTask("sleep", task.attempt,
                                            Append(task.slept, BackoffDelay(task.attempt)), e))
         /\ UNCHANGED <<gen_value, gen_last>>
    ELSE /\ gen_tasks' = gen_tasks (-) One(task)
         /\ gen_value' = gen_value + 1
         /\ gen_last' = GenEnd("error", task, e, Returned(Placeholder))

\* create() returns a completion
GenComplete ==
    /\ \E task \in BagToSet(gen_tasks), completion \in Completions :
          /\ task.pc = "create"
          /\ LET content == Content(completion)
             IN  IF content.raised
                 THEN GenFail(task, content.error)
                 ELSE /\ gen_tasks' = gen_tasks (-) One(task)
                      /\ gen_value' = gen_value + 1
                      /\ gen_last' = GenEnd("ok", task, NoError, Returned(content.value))
    /\ UNCHANGED gen_started
    /\ UNCHANGED nonGenVars

\* create() raises
GenError ==
    /\ \E task \in BagToSet(gen_tasks), e \in CreateErrors :
          /\ task.pc = "create"
          /\ GenFail(task, e)
    /\ UNCHANGED gen_started
    /\ UNCHANGED nonGenVars

\* asyncio.sleep(delay) is over: continue with the next attempt
GenWake ==
    /\ \E task \in BagToSet(gen_tasks) :
          /\ task.pc = "sleep"
          /\ IF task.attempt + 1 < llm_max_retries
             THEN /\ gen_tasks' = (gen_tasks (-) One(task))
                                     (+) One(GenTask("create", task.attempt + 1, task.slept, task.error))
                  /\ UNCHANGED <<gen_value, gen_last>>
             ELSE \* the loop is over: return "{}"
                  /\ gen_tasks' = gen_tasks (-) One(task)
                  /\ gen_value' = gen_value + 1
                  /\ gen_last' = GenEnd("exhausted", task, task.error, Returned(Placeholder))
    /\ UNCHANGED gen_started
    /\ UNCHANGED nonGenVars

GenNext ==
    \/ GenCall
    \/ GenAcquire
    \/ GenComplete
    \/ GenError
    \/ GenWake

(***************************************************************************)
(* Functions checked on their own: one call on an input                    *)
(***************************************************************************)
FnIdle ==
    /\ fn_pc = "idle"
    /\ fn_input = <<>>
    /\ fn_output = <<>>

(***************************************************************************)
(* run_analysis_stream.worker: the references built from the reviews       *)
(***************************************************************************)
MaxRefReviews == 3       \* longest list of final reviews tried

\* for r in reviews: if r.url and r.url not in seen_urls: append, add
RECURSIVE ReferencesKeepEmpty(_, _, _)
ReferencesKeepEmpty(reviews, seen_urls, references) ==
    IF reviews = <<>> THEN references
    ELSE LET r == Head(reviews)
         IN  IF r.url \notin seen_urls
             THEN ReferencesKeepEmpty(Tail(reviews), seen_urls \cup {r.url},
                                      Append(references, [title |-> r.law_name \o " " \o r.key_clause,
                                                          url |-> r.url]))
             ELSE ReferencesKeepEmpty(Tail(reviews), seen_urls, references)
RECURSIVE References(_, _, _)
References(reviews, seen_urls, references) ==
    IF reviews = <<>> THEN references
    ELSE LET r == Head(reviews)
         IN  IF r.url # "" /\ r.url \notin seen_urls
             THEN References(Tail(reviews), seen_urls \cup {r.url},
                             Append(references, [title |-> r.law_name \o " " \o r.key_clause,
                                                 url |-> r.url]))
             ELSE References(Tail(reviews), seen_urls, references)

RefReviews ==
    {Review(n, "c", "Prohibited", u) : n \in {"A", "B"}, u \in {"", "u1", "u2"}}

RefInit ==
    /\ fn_pc = "called"
    /\ fn_input \in SeqsUpTo(RefReviews, MaxRefReviews)
    /\ fn_output = <<>>

BuildReferences ==
    /\ fn_pc = "called"
    /\ fn_output' = References(fn_input, {}, <<>>)
    /\ fn_pc' = "returned"
    /\ UNCHANGED fn_input
    /\ UNCHANGED nonFnVars

(***************************************************************************)
(* NationalLawAPI._force_list                                              *)
(***************************************************************************)
MaxListLen == 2          \* longest list given to _force_list

\* Python values as xmltodict delivers them, and a few others
PyNone == [type |-> "NoneType", items |-> <<>>, text |-> "", num |-> 0]
PyStr(text) == [type |-> "str", items |-> <<>>, text |-> text, num |-> 0]
PyInt(num) == [type |-> "int", items |-> <<>>, text |-> "", num |-> num]
PyBool(num) == [type |-> "bool", items |-> <<>>, text |-> "", num |-> num]
\* a dict, by the text of its only key ("" for the dict without keys)
PyDict(text) == [type |-> "dict", items |-> <<>>, text |-> text, num |-> 0]
PyList(items) == [type |-> "list", items |-> items, text |-> "", num |-> 0]

\* Python's truth value: bool(data)
Truthy(data) ==
    IF data.type = "NoneType" THEN FALSE
    ELSE IF data.type \in {"str", "dict"} THEN data.text # ""
    ELSE IF data.type \in {"int", "bool"} THEN data.num # 0
    ELSE data.items # <<>>

ForceListWrapsAll(data) ==
    IF data.type = "list" THEN data ELSE PyList(<<data>>)
ForceList(data) ==
    IF ~Truthy(data) THEN PyList(<<>>)
    ELSE IF data.type = "list" THEN data
    ELSE PyList(<<data>>)

Scalars ==
    {PyNone, PyStr(""), PyStr("jo"), PyInt(0), PyInt(3), PyBool(0), PyBool(1),
     PyDict(""), PyDict("hang")}
ForceListInputs ==
    Scalars \cup {PyList(items) : items \in SeqsUpTo(Scalars, MaxListLen)}
            \cup {PyList(<<PyList(<<PyStr("jo")>>)>>)}

ForceListInit ==
    /\ fn_pc = "called"
    /\ fn_input \in ForceListInputs
    /\ fn_output = <<>>

ForceListCall ==
    /\ fn_pc = "called"
    /\ fn_output' = ForceList(fn_input)
    /\ fn_pc' = "returned"
    /\ UNCHANGED fn_input
    /\ UNCHANGED nonFnVars

(***************************************************************************)
(* Investigator._search_phase on its own: one call                         *)
(***************************************************************************)
MaxHits == 11            \* most hits one ai_search task returns

\* n different hits
ManyHits(n) ==
    [i \in 1..n |-> AiHit("Law" \o ToString(i), "art", 100, "url" \o ToString(i))]

SearchInputs ==
    [keywords : {<<>>, <<"k1">>, <<"k1", "k2">>, <<"k1", "k2", "k3">>},
     strategy : {[rationale |-> "r", databases |-> dbs, focus_keywords |-> <<>>] :
                    dbs \in {<<"law">>, <<"law", "admrul">>, <<"prec">>, <<"law", "prec">>}},
     ext : [gen : {<<"q1">>},
            ai_hits : {ManyHits(n) : n \in {0, 1, MaxHits - 1, MaxHits}},
            prec_hits : {<<>>, <<PrecItem>>},
            sel : {[kind |-> "nonlist", names |-> <<>>, str |-> PlaceholderStr],
                   [kind |-> "list", names |-> <<CivilAct>>, str |-> EmptyStr]}]]

SearchInit ==
    /\ fn_pc = "called"
    /\ fn_input \in SearchInputs
    /\ fn_output = <<>>

SearchCall ==
    /\ fn_pc = "called"
    /\ fn_output' = SearchPhase(fn_input.keywords, <<"p1">>, FALSE, fn_input.strategy, fn_input.ext)
    /\ fn_pc' = "returned"
    /\ UNCHANGED fn_input
    /\ UNCHANGED nonFnVars

(***************************************************************************)
(* run_analysis_stream (src/pipeline.py; src/miri.py holds an older copy)  *)
(*                                                                         *)
(* The generator creates the worker task and then reads the queue until it *)
(* finds the sentinel. The queue is unbounded, so a put never suspends: a  *)
(* step of the worker runs from one await of an external call to the next  *)
(* and appends everything it logs on the way.                              *)
(***************************************************************************)
MaxExecuteLogs == 2      \* messages execute logs while the worker waits for it

LogItem == "log"
ResultItem == "result"
ErrorItem == "error"
Sentinel == "None"

RunVariants == {"pipeline", "pipeline_test", "miri"}

\* n log messages are put
RECURSIVE Logs(_, _)
Logs(queue, n) == IF n = 0 THEN queue ELSE Logs(Append(queue, LogItem), n - 1)

\* finally: await queue.put(None)
FinallySkipped(queue) == queue
Finally(queue) == Append(queue, Sentinel)

\* except Exception as e: the error message is put, then the finally clause
OnWorkerException(queue) == Finally(Append(queue, ErrorItem))

\* the result message is put and the worker ends through the finally clause
PutResult(queue) == Finally(Append(queue, ResultItem))

\* the external call awaited after the one at pc has returned
NextAwait(variant, pc) ==
    IF pc = "structure" THEN (IF variant = "miri" THEN "simulate" ELSE "scenario")
    ELSE IF pc \in {"scenario", "simulate"} THEN "investigate"
    ELSE IF pc = "investigate" THEN "audit"
    ELSE "done"

RunIdle ==
    /\ run_variant = "none"
    /\ run_pc = "idle"
    /\ run_step = 0
    /\ run_queue = <<>>
    /\ run_consumer = "idle"
    /\ run_out = <<>>

\* run_analysis_stream was called: the worker task is created and the
\* generator waits at queue.get()
RunInit ==
    /\ run_variant \in RunVariants
    /\ run_pc = "created"
    /\ run_step = 0
    /\ run_queue = <<>>
    /\ run_consumer = "waiting"
    /\ run_out = <<>>

\* the worker starts: the agents are built (which may raise) and it runs to
\* its first await
RunStart ==
    /\ run_pc = "created"
    /\ \/ /\ run_variant = "pipeline_test"
          /\ run_queue' = Logs(run_queue, 1)
          /\ run_pc' = "sleep"
       \/ /\ run_variant # "pipeline_test"
          /\ run_queue' = Logs(run_queue, 2)
          /\ run_pc' = "structure"
       \/ /\ run_variant # "pipeline_test"
          /\ run_queue' = OnWorkerException(run_queue)
          /\ run_pc' = "done"
    /\ UNCHANGED <<run_variant, run_step, run_consumer, run_out>>
    /\ UNCHANGED nonRunVars

\* test mode: a sleep is over; after the fourth the result is put
RunTestStep ==
    /\ run_pc = "sleep"
    /\ run_step' = run_step + 1
    /\ IF run_step + 1 < 4
       THEN /\ run_queue' = Logs(run_queue, 1)
            /\ UNCHANGED run_pc
       ELSE /\ run_queue' = PutResult(Logs(run_queue, 1))
            /\ run_pc' = "done"
    /\ UNCHANGED <<run_variant, run_consumer, run_out>>
    /\ UNCHANGED nonRunVars

\* structurer.execute, the scenario step or simulator.execute returned: the
\* worker logs and goes on to the next call (execute logs its first message
\* when it is called)
RunStageReturns ==
    /\ run_pc \in {"structure", "scenario", "simulate"}
    /\ run_queue' = Logs(run_queue, IF NextAwait(run_variant, run_pc) = "investigate" THEN 3 ELSE 2)
    /\ run_pc' = NextAwait(run_variant, run_pc)
    /\ UNCHANGED <<run_variant, run_step, run_consumer, run_out>>
    /\ UNCHANGED nonRunVars

\* miri.py: the simulator gave no scenario: an error message is put, return
RunNoScenario ==
    /\ run_variant = "miri" /\ run_pc = "simulate"
    /\ run_queue' = Finally(Append(run_queue, ErrorItem))
    /\ run_pc' = "done"
    /\ UNCHANGED <<run_variant, run_step, run_consumer, run_out>>
    /\ UNCHANGED nonRunVars

\* investigator.execute calls on_log between two of its awaits
RunExecuteLogs ==
    /\ run_pc = "investigate"
    /\ run_step < MaxExecuteLogs
    /\ run_step' = run_step + 1
    /\ run_queue' = Logs(run_queue, 1)
    /\ UNCHANGED <<run_variant, run_pc, run_consumer, run_out>>
    /\ UNCHANGED nonRunVars

\* investigator.execute returned: two messages, then auditor.execute
RunExecuteReturns ==
    /\ run_pc = "investigate"
    /\ run_queue' = Logs(run_queue, 2)
    /\ run_pc' = NextAwait(run_variant, run_pc)
    /\ UNCHANGED <<run_variant, run_step, run_consumer, run_out>>
    /\ UNCHANGED nonRunVars

\* auditor.execute returned: a message, the references and the result data
\* are built (which may raise) and the result is put
RunAuditReturns ==
    /\ run_pc = "audit"
    /\ \/ run_queue' = PutResult(Logs(run_queue, 1))
       \/ run_queue' = OnWorkerException(Logs(run_queue, 1))
    /\ run_pc' = NextAwait(run_variant, run_pc)
    /\ UNCHANGED <<run_variant, run_step, run_consumer, run_out>>
    /\ UNCHANGED nonRunVars

\* the awaited call raises an Exception (the scenario step catches its own)
RunStageRaises ==
    /\ run_pc \in {"structure", "simulate", "investigate", "audit"}
    /\ run_queue' = OnWorkerException(run_queue)
    /\ run_pc' = "done"
    /\ UNCHANGED <<run_variant, run_step, run_consumer, run_out>>
    /\ UNCHANGED nonRunVars

\* the worker is cancelled at its await: CancelledError is no Exception, so
\* only the finally clause runs
RunCancelled ==
    /\ run_pc \in {"sleep", "structure", "scenario", "simulate", "investigate", "audit"}
    /\ run_queue' = Finally(run_queue)
    /\ run_pc' = "done"
    /\ UNCHANGED <<run_variant, run_step, run_consumer, run_out>>
    /\ UNCHANGED nonRunVars

\* the generator: item = await queue.get(); if item is None: break; yield item
RunConsume ==
    /\ run_consumer = "waiting"
    /\ run_queue # <<>>
    /\ run_queue' = Tail(run_queue)
    /\ IF Head(run_queue) = Sentinel
       THEN /\ run_consumer' = "ended"
            /\ UNCHANGED run_out
       ELSE /\ run_out' = Append(run_out, Head(run_queue))
            /\ UNCHANGED run_consumer
    /\ UNCHANGED <<run_variant, run_pc, run_step>>
    /\ UNCHANGED nonRunVars

RunNext ==
    \/ RunStart
    \/ RunTestStep
    \/ RunStageReturns
    \/ RunNoScenario
    \/ RunExecuteLogs
    \/ RunExecuteReturns
    \/ RunAuditReturns
    \/ RunStageRaises
    \/ RunCancelled
    \/ RunConsume

(***************************************************************************)
(* Specifications: one per component, the others idle                      *)
(***************************************************************************)
InitSelect == SelInit /\ PlanIdle /\ CtlIdle /\ ExtIdle /\ ChkIdle /\ AggIdle /\ FetchIdle /\ GenIdle /\ FnIdle /\ RunIdle
SpecSelect == InitSelect /\ [][SelNext]_vars

InitPlan == PlanIdle /\ SelIdle /\ CtlIdle /\ ExtIdle /\ ChkIdle /\ AggIdle /\ FetchIdle /\ GenIdle /\ FnIdle /\ RunIdle
SpecPlan == InitPlan /\ [][PlanNext]_vars

InitControl == CtlInit /\ SelIdle /\ PlanIdle /\ ExtIdle /\ ChkIdle /\ AggIdle /\ FetchIdle /\ GenIdle /\ FnIdle /\ RunIdle
SpecControl == InitControl /\ [][CtlNext]_vars

\* the controller when every call it awaits returns: a step that can be taken
\* is taken
SpecControlFair == InitControl /\ [][CtlNext]_vars /\ WF_vars(CtlNext)

InitExtract == ExtInit /\ SelIdle /\ PlanIdle /\ CtlIdle /\ ChkIdle /\ AggIdle /\ FetchIdle /\ GenIdle /\ FnIdle /\ RunIdle
SpecExtract == InitExtract /\ [][ExtNext]_vars

InitChunk == ChkInit /\ SelIdle /\ PlanIdle /\ CtlIdle /\ ExtIdle /\ AggIdle /\ FetchIdle /\ GenIdle /\ FnIdle /\ RunIdle
SpecChunk == InitChunk /\ [][ChkNext]_vars

InitAggregate == AggInit /\ SelIdle /\ PlanIdle /\ CtlIdle /\ ExtIdle /\ ChkIdle /\ FetchIdle /\ GenIdle /\ FnIdle /\ RunIdle
SpecAggregate == InitAggregate /\ [][AggNext]_vars

InitFetch == FetchInit /\ SelIdle /\ PlanIdle /\ CtlIdle /\ ExtIdle /\ ChkIdle /\ AggIdle /\ GenIdle /\ FnIdle /\ RunIdle
SpecFetch == InitFetch /\ [][FetchNext]_vars

InitGenerate == GenInit /\ SelIdle /\ PlanIdle /\ CtlIdle /\ ExtIdle /\ ChkIdle /\ AggIdle /\ FetchIdle /\ FnIdle /\ RunIdle
SpecGenerate == InitGenerate /\ [][GenNext]_vars

InitReferences == RefInit /\ SelIdle /\ PlanIdle /\ CtlIdle /\ ExtIdle /\ ChkIdle /\ AggIdle /\ FetchIdle /\ GenIdle /\ RunIdle
SpecReferences == InitReferences /\ [][BuildReferences]_vars

InitForceList == ForceListInit /\ SelIdle /\ PlanIdle /\ CtlIdle /\ ExtIdle /\ ChkIdle /\ AggIdle /\ FetchIdle /\ GenIdle /\ RunIdle
SpecForceList == InitForceList /\ [][ForceListCall]_vars

InitSearch == SearchInit /\ SelIdle /\ PlanIdle /\ CtlIdle /\ ExtIdle /\ ChkIdle /\ AggIdle /\ FetchIdle /\ GenIdle /\ RunIdle
SpecSearch == InitSearch /\ [][SearchCall]_vars

InitStream == RunInit /\ SelIdle /\ PlanIdle /\ CtlIdle /\ ExtIdle /\ ChkIdle /\ AggIdle /\ FetchIdle /\ GenIdle /\ FnIdle
SpecStream == InitStream /\ [][RunNext]_vars

\* the two gateways of one run: their calls share no state, so a behaviour
\* follows the calls of one of them
InitGateway ==
    /\ \/ FetchInit /\ GenIdle
       \/ FetchIdle /\ GenInit
    /\ SelIdle /\ PlanIdle /\ CtlIdle /\ ExtIdle /\ ChkIdle /\ AggIdle /\ FnIdle /\ RunIdle
GatewayFetch == fetch_value + fetch_started > 0 /\ FetchNext
GatewayGenerate == gen_value + gen_started > 0 /\ GenNext
GatewayNext == GatewayFetch \/ GatewayGenerate
SpecGateway == InitGateway /\ [][GatewayNext]_vars

(***************************************************************************)
(* Claims about _select_best_candidates                                    *)
(***************************************************************************)
\* the containment test of the source, as a relation on two strings
NameMatches(name, item_name) ==
    /\ name # NotAString
    /\ item_name # NoneName
    /\ (IsSubstr(name, item_name) \/ IsSubstr(item_name, name))

\* C7: every item of the sequence select returns is an item of the candidate
\* list it was given, whatever the judgment service answered.
C7_SelectIsSubsetOfInput ==
    sel_pc = "returned" => \A k \in 1..Len(sel_result) : sel_result[k] \in Range(sel_input)

\* C7 witness: a selection by name out of a list longer than the cap has returned
C7_Witness ==
    /\ sel_pc = "returned"
    /\ Len(sel_input) > SelectorCap
    /\ sel_response.kind = "list"
    /\ Len(sel_result) = 2
    /\ sel_result[1] # sel_result[2]

\* C8 (as claimed): with the candidates "근로기준법" and "근로기준법 시행령" in
\* either order and the selector returning ["근로기준법"], the result is exactly
\* the one candidate named "근로기준법".
C8_ExactNameSelected ==
    ( /\ sel_pc = "returned"
      /\ Len(sel_input) = 2
      /\ {sel_input[1].name, sel_input[2].name} = {LaborAct, LaborActDecree}
      /\ sel_response.kind = "list"
      /\ sel_response.names = <<LaborAct>> )
    => ( /\ Len(sel_result) = 1
         /\ sel_result[1].name = LaborAct )

\* the service failed (placeholder "{}") or parsing its answer raised
SelectorFailed(resp) ==
    \/ resp.kind = "raise"
    \/ resp.kind = "nonlist" /\ resp.str = PlaceholderStr

\* a list came back and none of its names matches a presented candidate
NoNameMatches(resp, presented) ==
    /\ resp.kind = "list"
    /\ \A j \in 1..Len(resp.names) : \A k \in 1..Len(presented) :
          ~NameMatches(resp.names[j], presented[k].name)

PlanResponseUnusable(resp) ==
    \/ resp.kind \in {"raise", "nondict"}
    \/ resp.rationale \in {Absent, BadType}
    \/ resp.databases = BadTypeList
    \/ resp.focus_keywords = BadTypeList

\* C10: on the failure placeholder "{}" and on every unparsable or wrongly
\* shaped response, plan returns the default strategy naming law, admrul and
\* prec with no supplementary keywords, and does not raise.
C10_PlanDefaultsOnFailure ==
    /\ plan_pc # "raised"
    /\ (plan_pc = "returned" /\ PlanResponseUnusable(plan_response)) =>
          /\ Range(plan_result.databases) = {"law", "admrul", "prec"}
          /\ Len(plan_result.databases) = 3
          /\ plan_result.focus_keywords = <<>>

\* C10 witness: the placeholder came back and plan returned the default
C10_Witness ==
    /\ plan_pc = "returned"
    /\ plan_response = PlaceholderObject
    /\ plan_result = DefaultStrategy

(***************************************************************************)
(* Claims about the critique/retry controller and execute                  *)
(***************************************************************************)
\* the controller has finished with the Action whose history it holds
ActionFinished ==
    /\ ctl_critic # <<>>
    /\ \/ ctl_which = "execute" /\ ctl_pc \in {"start", "returned"}
       \/ ctl_which = "process_action" /\ ctl_pc = "returned"

\* C3: for one Action the retrieval phase runs at most twice (the initial pass
\* and at most one retry), in execute and in _process_action, whatever the
\* critique returns.
C3_AtMostTwoRetrievals == Len(ctl_search_log) <= 2

\* C3 witness: _process_action ran the retry and the second critique again
\* failed with new keywords, and the loop ended
C3_Witness ==
    /\ ctl_which = "process_action"
    /\ ctl_pc = "returned"
    /\ Len(ctl_search_log) = 2
    /\ Len(ctl_critic) = 2
    /\ ctl_critic[2].status = "FAIL"
    /\ ctl_critic[2].new_keywords = <<"kw2">>

\* C4 (as claimed): when the first critique is FAIL with new keywords, retrieval
\* and extraction run a second time with those keywords; on FAIL without new
\* keywords, or on a second FAIL, the loop stops with the evidence so far.
C4_RetryOnFailWithKeywords ==
    ActionFinished =>
        LET first == ctl_critic[1]
        IN  /\ (first.status = "FAIL" /\ GetNewKeywords(first) # <<>>) =>
                  /\ Len(ctl_search_log) = 2
                  /\ Range(GetNewKeywords(first)) \subseteq Range(ctl_search_log[2].keywords)
            /\ (first.status = "FAIL" /\ GetNewKeywords(first) = <<>>) =>
                  Len(ctl_search_log) = 1
            /\ Len(ctl_search_log) <= 2

\* C5 (as claimed): execute never propagates an exception; it returns a pair
\* (LegalEvidence, reviews) with one display line per review.
C5_ExecuteNeverRaises ==
    ctl_which = "execute" =>
        /\ ctl_pc # "raised"
        /\ ctl_pc = "returned" => Len(ctl_result.relevant_laws) = Len(ctl_result.reviews)


\* C1: no review whose status is the Neutral sentinel, in either vocabulary
\* and in any letter case, is among the reviews the extractor returns,
\* whichever strategy handled the document.
C1_NoNeutralReturned ==
    \A k \in 1..Len(ext_valid) : ext_heap[ext_valid[k]].status \notin NeutralWords

\* C2: once a first extraction call for an (action, document) pair has
\* returned, the second call for the same pair issues no judgment-service call
\* and returns reviews equal to those of the first.
C2_SecondCallFromCache ==
    ext_call >= 2 =>
        \A i \in 1..Len(ext_tasks) :
            /\ ext_tasks[i].llm_calls = 0
            /\ ext_tasks[i].pc = "done" => Values(ext_heap, ext_tasks[i].result) = ext_first[i]

\* C6: a fault inside one task of the extraction batch is caught in that task
\* (the task ends with a result, never with an exception) and the batch does
\* not raise, so that the results of the sibling tasks are collected.
C6_FaultsCaughtPerTask ==
    /\ ext_pc # "raised"
    /\ \A i \in 1..Len(ext_tasks) : ext_tasks[i].pc # "raised"


(***************************************************************************)
(* Claims about the index scan                                             *)
(***************************************************************************)
\* the table-of-contents answer of the task was parsed and names no article
\* index within range
NothingSelected(task) ==
    /\ task.toc.kind \in {"list", "nonlist"}
    /\ \A k \in 1..Len(task.toc.indices) :
          task.toc.indices[k] < 0 \/ task.toc.indices[k] >= ext_batch[task.doc].n_articles

\* C11: for a statute or rule with more than 5 articles whose index-scan
\* selection is empty, the extraction call returns [] and issues no
\* direct-analysis or chunk call: the table-of-contents call is its only call.
C11_EmptySelectionSkipsDocument ==
    \A i \in 1..Len(ext_tasks) :
        NothingSelected(ext_tasks[i]) =>
            /\ ext_tasks[i].pc = "done"
            /\ ext_tasks[i].result = <<>>
            /\ ext_tasks[i].llm_calls = 1
            /\ ext_tasks[i].chunks = <<>>

\* C11 witness: a rule of more than 5 articles and a text long enough to be
\* chunked, answered with indices that are all out of range; the call is over
C11_Witness ==
    \E i \in 1..Len(ext_tasks) :
        /\ ext_batch[ext_tasks[i].doc].n_articles > IndexScanMin
        /\ ext_batch[ext_tasks[i].doc].text_len >= DirectLimit
        /\ ext_tasks[i].toc.kind = "list"
        /\ ext_tasks[i].toc.indices # <<>>
        /\ NothingSelected(ext_tasks[i])
        /\ ext_tasks[i].pc = "done"
        /\ ext_pc = "returned"


(***************************************************************************)
(* Claims about the chunking                                               *)
(***************************************************************************)
\* number of text indices two chunks have in common
Shared(a, b) ==
    LET lo == IF a.start > b.start THEN a.start ELSE b.start
        hi == IF a.end < b.end THEN a.end ELSE b.end
    IN  IF hi > lo THEN hi - lo ELSE 0

\* C12: every index in [0, L) lies in at least one chunk, and two consecutive
\* chunks share exactly `overlap` indices unless the second is the final chunk.
C12_ChunksCoverAndOverlap ==
    chk_pc = "done" =>
        /\ \A x \in 0..(chk_len - 1) :
              \E c \in 1..Len(chk_chunks) : chk_chunks[c].start <= x /\ x < chk_chunks[c].end
        /\ \A c \in 1..(Len(chk_chunks) - 2) :
              Shared(chk_chunks[c], chk_chunks[c + 1]) = overlap

\* C12 witness: a text split into at least three chunks whose final chunk
\* shares fewer than `overlap` indices with the chunk before it
C12_Witness ==
    /\ chk_pc = "done"
    /\ Len(chk_chunks) >= 3
    /\ Shared(chk_chunks[Len(chk_chunks) - 1], chk_chunks[Len(chk_chunks)]) < overlap


(***************************************************************************)
(* Claims about the Analysis Cache                                         *)
(***************************************************************************)
\* C13: a call that finds its key in the cache returns the cached reviews with
\* every review's URL set to the URL of the call, issues no judgment-service
\* call, and leaves the cache as it was.
C13_CacheHitReturnsCached ==
    [][ext_call' = ext_call + 1 =>
          /\ ext_cache' = ext_cache
          /\ \A i \in 1..Len(ext_tasks') :
                LET doc == ext_batch'[ext_tasks'[i].doc]
                IN  (KeyOf(doc, TRUE) \in DOMAIN ext_cache /\ ext_tasks'[i].pc # "raised")
                        => ext_tasks'[i].hit
          /\ \A i \in 1..Len(ext_tasks') :
                ext_tasks'[i].hit =>
                    LET task == ext_tasks'[i]
                        url == ext_batch'[task.doc].url
                        cached == ext_cache[task.key]
                    IN  /\ task.pc = "done"
                        /\ task.llm_calls = 0
                        /\ task.result = cached
                        /\ Values(ext_heap', task.result) =
                              [k \in 1..Len(cached) |-> [ext_heap[cached[k]] EXCEPT !.url = url]]]_vars

\* C13 witness: a second call reached the cached document through another URL
\* and returned the cached review, which now carries that URL
C13_Witness ==
    /\ ext_call = 2
    /\ \E i \in 1..Len(ext_tasks) :
          /\ ext_tasks[i].hit
          /\ ext_batch[ext_tasks[i].doc].url = AltUrl
          /\ ext_tasks[i].result # <<>>
          /\ ext_heap[ext_tasks[i].result[1]].url = AltUrl
          /\ Len(ext_first[i]) = 1
          /\ ext_first[i][1].url # AltUrl

\* C14 (as claimed): once a list is stored in the cache under a key, neither
\* the stored list nor any field of its reviews changes in any later step.
C14_CacheEntriesImmutable ==
    [][\A key \in DOMAIN ext_cache :
          /\ key \in DOMAIN ext_cache'
          /\ ext_cache'[key] = ext_cache[key]
          /\ Values(ext_heap', ext_cache[key]) = Values(ext_heap, ext_cache[key])]_vars


(***************************************************************************)
(* Claims about the aggregation                                            *)
(***************************************************************************)
\* the positions of the reviews that are the first of their
\* (law_name, key_clause) pair in a list
FirstSeen(all) ==
    {i \in 1..Len(all) :
        \A j \in 1..(i - 1) :
            all[j].law_name # all[i].law_name \/ all[j].key_clause # all[i].key_clause}

\* kept is exactly the first-seen reviews of all, in their order, cut after
\* the first `limit`
KeepsFirstSeen(kept, all, limit) ==
    LET F == FirstSeen(all)
        Rank(i) == Cardinality({j \in F : j <= i})
    IN  /\ Len(kept) = (IF Cardinality(F) < limit THEN Cardinality(F) ELSE limit)
        /\ \A i \in F : Rank(i) <= limit => kept[Rank(i)] = all[i]

\* C15 (as claimed): the deduplication of execute and of _process_action keeps,
\* for every (law_name, key_clause) pair among the reviews, exactly one review,
\* the first seen, and keeps them in first-seen order, also when duplicates
\* differ in URL, status or summary.
C15_DedupKeepsFirstSeen ==
    agg_pc = "returned" =>
        KeepsFirstSeen(agg_unique, Flatten(agg_input), Len(Flatten(agg_input)))

\* C16: execute returns at most 50 reviews, the first 50 of the deduplicated
\* reviews, and one display line per returned review in the same order.
C16_HardCapAndDisplayLines ==
    (agg_pc = "returned" /\ agg_which = "execute") =>
        /\ Len(agg_result.reviews) <= 50
        /\ KeepsFirstSeen(agg_result.reviews, Flatten(agg_input), 50)
        /\ Len(agg_result.relevant_laws) = Len(agg_result.reviews)
        /\ \A k \in 1..Len(agg_result.reviews) :
              LET r == agg_result.reviews[k]
              IN  agg_result.relevant_laws[k] =
                     "- " \o r.law_name \o " " \o r.key_clause \o ": " \o r.summary

\* C16 witness: more than 50 distinct reviews, with repetitions among them,
\* went in and 50 came out
C16_Witness ==
    /\ agg_pc = "returned"
    /\ agg_which = "execute"
    /\ Cardinality(FirstSeen(Flatten(agg_input))) > 50
    /\ Len(Flatten(agg_input)) > Cardinality(FirstSeen(Flatten(agg_input)))
    /\ Len(agg_result.reviews) = 50

(***************************************************************************)
(* Claims about _fetch                                                     *)
(***************************************************************************)
\* C17: _fetch never raises: after a status other than 200, a transport
\* exception or a body that does not parse it returns the empty mapping, on
\* success it returns the parsed response, and what it returns is always a
\* mapping.
C17_FetchFailsSoft ==
    fetch_last.event # "none" =>
        /\ fetch_last.outcome = "returned"
        /\ fetch_last.value.type = "dict"
        /\ fetch_last.event \in {"status", "transport", "parse"} =>
              fetch_last.value = [type |-> "dict", entries |-> ""]
        /\ fetch_last.event = "ok" =>
              /\ fetch_last.content \in WellFormed
              /\ fetch_last.value = [type |-> "dict", entries |-> fetch_last.content]

\* C17 witness: a call whose body did not parse has returned the empty mapping
C17_Witness ==
    /\ fetch_last.event = "parse"
    /\ fetch_last.outcome = "returned"
    /\ fetch_last.value = [type |-> "dict", entries |-> ""]

(***************************************************************************)
(* Claims about generate                                                   *)
(***************************************************************************)
\* an error of the rate-limit class: the service answered 429
RateLimitClass(e) == e.status = 429

\* C18: a rate-limited attempt that is not the third is followed by a backoff
\* wait, of 1 second after the first attempt and of 2 seconds after the
\* second, and then by another attempt; a call makes at most 3 attempts; when
\* the third attempt is rate-limited too the call returns "{}".
C18_RateLimitBackoff ==
    /\ \A task \in BagToSet(gen_tasks) :
          /\ task.attempt \in 0..2
          /\ task.pc = "create" => task.slept = SubSeq(<<1, 2>>, 1, task.attempt)
          /\ task.pc = "sleep" => task.slept = SubSeq(<<1, 2>>, 1, task.attempt + 1)
    /\ gen_last.event # "none" =>
          /\ gen_last.attempt \in 0..2
          /\ gen_last.slept = SubSeq(<<1, 2>>, 1, gen_last.attempt)
          /\ (gen_last.event = "error" /\ RateLimitClass(gen_last.error)) =>
                /\ gen_last.attempt = 2
                /\ gen_last.outcome = "returned"
                /\ gen_last.value = [type |-> "str", text |-> "{}"]

\* C18 witness: a call was rate-limited three times, waited 1 s and 2 s in
\* between, and returned "{}"
C18_Witness ==
    /\ gen_last.event = "error"
    /\ RateLimitClass(gen_last.error)
    /\ gen_last.attempt = 2
    /\ gen_last.slept = <<1, 2>>
    /\ gen_last.value = [type |-> "str", text |-> "{}"]

\* C19 (as claimed): after a failure that is not of the rate-limit class the
\* call returns "{}" at once, with no backoff wait and no further attempt;
\* generate always returns a string and never raises.
C19_OtherFailuresReturnAtOnce ==
    /\ \A task \in BagToSet(gen_tasks) :
          task.error # NoError => RateLimitClass(task.error)
    /\ gen_last.event # "none" =>
          /\ gen_last.outcome = "returned"
          /\ gen_last.value.type = "str"
          /\ gen_last.event = "error" => gen_last.value = [type |-> "str", text |-> "{}"]

(***************************************************************************)
(* Claims about the retrieval phase                                        *)
(***************************************************************************)
\* C20 (as claimed): the raw documents a search phase collects for one Action
\* hold no two entries for the same hit: no two of them have the same display
\* name, however many queries and scopes returned it.
C20_RawDataHasNoDuplicates ==
    \A i, j \in 1..Len(ctl_raw_data) :
        i < j => ctl_raw_data[i].title # ctl_raw_data[j].title

(***************************************************************************)
(* Claims about the two semaphores                                         *)
(***************************************************************************)
RECURSIVE SumAt(_, _)
SumAt(tasks, keys) ==
    IF keys = {} THEN 0
    ELSE LET k == CHOOSE x \in keys : TRUE
         IN  tasks[k] + SumAt(tasks, keys \ {k})

\* HTTP requests that are out: calls at "get" or "text"
HttpInFlight == SumAt(fetch_tasks, {k \in DOMAIN fetch_tasks : k[2] \in {"get", "text"}})
HttpWaiting == SumAt(fetch_tasks, {k \in DOMAIN fetch_tasks : k[2] = "waiting"})
\* judgment-service requests that are out, and calls between two attempts
LlmInFlight == BagCardinality([t \in {x \in BagToSet(gen_tasks) : x.pc = "create"} |-> gen_tasks[t]])
LlmSleeping == BagCardinality([t \in {x \in BagToSet(gen_tasks) : x.pc = "sleep"} |-> gen_tasks[t]])

\* C21: at most 5 HTTP requests and at most 3 judgment-service requests are in
\* flight, and every request in flight holds a permit of its semaphore (the
\* permits taken are exactly those of the requests in flight and of the
\* judgment calls between two attempts).
C21_PermitsBoundRequests ==
    /\ DOMAIN fetch_tasks # {} =>
          /\ HttpInFlight <= 5
          /\ fetch_value >= 0
          /\ HttpInFlight = 5 - fetch_value
    /\ gen_value + gen_started > 0 =>
          /\ LlmInFlight <= 3
          /\ gen_value >= 0
          /\ LlmInFlight + LlmSleeping = 3 - gen_value

\* C21 witness: five HTTP requests are out and a sixth call waits
C21_Witness ==
    /\ DOMAIN fetch_tasks # {}
    /\ HttpInFlight = 5
    /\ HttpWaiting >= 1

(***************************************************************************)
(* Claims about concurrent cache misses                                    *)
(***************************************************************************)
\* the tasks of the running extraction call that share the key of task i
SameKey(i) == {j \in 1..Len(ext_tasks) : ext_tasks[j].key = ext_tasks[i].key}

\* C22 (as claimed): when two or more extraction calls for one key all missed
\* the cache and have all returned, each has returned a list of its own, and,
\* when one of them found something, the cache holds under the key the whole
\* list of exactly one of them.
C22_ConcurrentMissesLastWriterWins ==
    \A i \in 1..Len(ext_tasks) :
        LET S == SameKey(i)
        IN  (/\ Cardinality(S) >= 2
             /\ \A j \in S : ext_tasks[j].pc = "done" /\ ~ext_tasks[j].hit) =>
                /\ \A j, k \in S : j # k => Range(ext_tasks[j].result) \cap Range(ext_tasks[k].result) = {}
                /\ (\E j \in S : ext_tasks[j].result # <<>>) =>
                      /\ ext_tasks[i].key \in DOMAIN ext_cache
                      /\ \E j \in S : ext_cache[ext_tasks[i].key] = ext_tasks[j].result

(***************************************************************************)
(* Claims about the references                                             *)
(***************************************************************************)
\* the positions of the reviews that are the first with their non-empty URL
FirstWithUrl(reviews) ==
    {i \in 1..Len(reviews) :
        /\ reviews[i].url # ""
        /\ \A j \in 1..(i - 1) : reviews[j].url # reviews[i].url}

\* C23: the reference list holds every non-empty review URL exactly once, in
\* first-seen order, and no entry for a review with an empty URL.
C23_ReferencesUniqueUrls ==
    fn_pc = "returned" =>
        LET F == FirstWithUrl(fn_input)
            Rank(i) == Cardinality({j \in F : j <= i})
        IN  /\ Len(fn_output) = Cardinality(F)
            /\ \A i \in F : fn_output[Rank(i)].url = fn_input[i].url
            /\ \A k \in 1..Len(fn_output) : fn_output[k].url # ""
            /\ \A k, l \in 1..Len(fn_output) : k # l => fn_output[k].url # fn_output[l].url

\* C23 witness: reviews with a repeated URL and with an empty URL gave one
\* reference
C23_Witness ==
    /\ fn_pc = "returned"
    /\ Len(fn_input) = 3
    /\ fn_input[1].url = "u1"
    /\ fn_input[2].url = ""
    /\ fn_input[3].url = "u1"
    /\ Len(fn_output) = 1

(***************************************************************************)
(* Claims about _force_list                                                *)
(***************************************************************************)
\* the falsy values: None, "", 0, False, {} and []
FalsyValues ==
    {PyNone, PyStr(""), PyInt(0), PyBool(0), PyDict(""), PyList(<<>>)}

\* C24: _force_list returns the empty list for every falsy input, a list of
\* the one value for every other input that is not a list, and a list input
\* as it is; a result made from one scalar holds no list.
C24_ForceListShape ==
    fn_pc = "returned" =>
        /\ fn_output.type = "list"
        /\ fn_input \in FalsyValues => fn_output.items = <<>>
        /\ fn_input.type = "list" => fn_output = fn_input
        /\ (fn_input \notin FalsyValues /\ fn_input.type # "list") => fn_output.items = <<fn_input>>
        /\ fn_input.type # "list" =>
              \A k \in 1..Len(fn_output.items) : fn_output.items[k].type # "list"

\* C24 witness: a lone dict was wrapped into a list of one
C24_Witness ==
    /\ fn_pc = "returned"
    /\ fn_input = PyDict("hang")
    /\ fn_output.items = <<PyDict("hang")>>

(***************************************************************************)
(* Claims about the document limit of the retrieval phase                  *)
(***************************************************************************)
\* the ai_search tasks of the call: one per query and scope
SearchTasks ==
    LET dbs == Range(fn_input.strategy.databases)
        n_queries == IF fn_input.keywords = <<>> THEN 1 ELSE Len(fn_input.keywords)
    IN  n_queries * ((IF "law" \in dbs THEN 1 ELSE 0) + (IF "admrul" \in dbs THEN 1 ELSE 0))

\* C25: a retrieval phase returns at most 20 raw documents, and when it
\* collected more it returns the first 20 in collection order.
C25_AtMostTwentyDocs ==
    (fn_pc = "returned" /\ ~fn_output.raised) =>
        LET hits == fn_input.ext.ai_hits
            collected == SearchTasks * Len(hits)
            raw == fn_output.raw_data
        IN  /\ Len(raw) <= 20
            /\ Len(raw) = (IF collected > 20 THEN 20 ELSE collected)
            /\ \A k \in 1..Len(raw) :
                  LET h == hits[((k - 1) % Len(hits)) + 1]
                  IN  /\ raw[k].category = "ai_result"
                      /\ raw[k].title = <<h.law_name, h.article_title>>
                      /\ raw[k].url = h.link

\* C25 witness: 33 documents were collected and 20 returned
C25_Witness ==
    /\ fn_pc = "returned"
    /\ ~fn_output.raised
    /\ SearchTasks * Len(fn_input.ext.ai_hits) = 33
    /\ Len(fn_output.raw_data) = 20

(***************************************************************************)
(* Claims about the precedent shortcut                                     *)
(***************************************************************************)
\* task i analyses a precedent whose structured parse gave sections
SectionedPrecedent(i) ==
    /\ ext_batch[ext_tasks[i].doc].category = "prec"
    /\ ext_batch[ext_tasks[i].doc].n_articles > 0
    /\ ext_tasks[i].pc # "raised"

\* C26: for a precedent with parsed sections the extractor makes exactly one
\* recursive call, on the concatenated sections and with an empty raw payload
\* (so that the call is keyed by title and URL and parses no section), and
\* what is analysed is the concatenation, never the raw body text; no call
\* recurses more than once.
C26_PrecedentRecursesOnce ==
    \A i \in 1..Len(ext_tasks) :
        /\ ext_tasks[i].depth <= 1
        /\ SectionedPrecedent(i) =>
              LET doc == ext_batch[ext_tasks[i].doc]
              IN  \/ ext_tasks[i].hit
                  \/ /\ ext_tasks[i].depth = 1
                     /\ ext_tasks[i].key.kind = "TU"
                     /\ ext_tasks[i].text_len = doc.combined_len
                     /\ ext_tasks[i].text_len # doc.text_len
                     /\ ext_tasks[i].llm_calls = 1
        /\ ~SectionedPrecedent(i) => ext_tasks[i].depth = 0

\* C26 witness: the analysis of a precedent's sections has returned
C26_Witness ==
    \E i \in 1..Len(ext_tasks) :
        /\ SectionedPrecedent(i)
        /\ ~ext_tasks[i].hit
        /\ ext_tasks[i].pc = "done"
        /\ ext_tasks[i].depth = 1
        /\ ext_tasks[i].result # <<>>

(***************************************************************************)
(* Claims about the calls of the index scan                                *)
(***************************************************************************)
\* the article indices of the answer of task i that are integers in range
ValidIndices(i) ==
    {x \in Range(ext_tasks[i].toc.indices) :
        x >= 0 /\ x < ext_batch[ext_tasks[i].doc].n_articles}

\* C27 (as claimed): after an index scan has analysed its articles, it has
\* made one focused extraction call per selected index that is an integer in
\* range, and at most 5 of them, whatever the list of indices was.
C27_AtMostFiveArticleCalls ==
    \A i \in 1..Len(ext_tasks) :
        (/\ ext_tasks[i].toc.kind = "list"
         /\ ext_tasks[i].pc = "done"
         /\ ~ext_tasks[i].hit) =>
            /\ ext_tasks[i].llm_calls - 1 = Cardinality(ValidIndices(i))
            /\ ext_tasks[i].llm_calls - 1 <= 5

(***************************************************************************)
(* Claims about a failed critique call                                     *)
(***************************************************************************)
\* what _critique returns when the judgment service failed: on "{}" (an
\* object without status), on a non-object and on text that does not parse
FailedCritiques ==
    {Critique(resp) : resp \in {r \in CritiqueResponses : r.kind # "dict" \/ r.status = Absent}}

\* C28: in the step in which a critique call fails, the controller starts no
\* retry and does not raise: _process_action returns the evidence it has and
\* execute adds the Action's reviews to its list and goes on.
C28_FailedCritiqueEndsAction ==
    [][(/\ ctl_pc \in {"critique", "pa_critique"}
        /\ Len(ctl_critic') = Len(ctl_critic) + 1
        /\ ctl_critic'[Len(ctl_critic')] \in FailedCritiques) =>
           /\ ctl_pc' \notin {"retry_search", "pa_search", "raised"}
           /\ Len(ctl_search_log') = Len(ctl_search_log)
           /\ ctl_which = "process_action" =>
                 /\ ctl_pc' = "returned"
                 /\ ctl_result'.reviews = ctl_reviews
           /\ ctl_which = "execute" =>
                 /\ ctl_pc' = "start"
                 /\ ctl_all_reviews' = ctl_all_reviews \o ctl_reviews]_vars

\* C28 witness: the critique was answered "{}" and _process_action returned
\* the reviews it had found
C28_Witness ==
    /\ ctl_which = "process_action"
    /\ ctl_pc = "returned"
    /\ Len(ctl_critic) = 1
    /\ ctl_critic[1].status = Absent
    /\ Len(ctl_search_log) = 1
    /\ ctl_reviews # <<>>
    /\ ctl_result.reviews = ctl_reviews

(***************************************************************************)
(* Claims about the termination of the controller                          *)
(***************************************************************************)
\* C29 (as claimed): when every external call returns, the controller makes at
\* most two rounds per Action and execute (or _process_action) eventually
\* returns.
C29_ControllerEventuallyReturns ==
    <>(ctl_pc = "returned")

(***************************************************************************)
(* Claims about a failed table-of-contents call                            *)
(***************************************************************************)
\* C30 (as claimed): when the table-of-contents call of an index scan fails
\* (its answer is "{}" or another value that is not a list), the step that
\* receives the answer writes nothing to the Analysis Cache.
C30_FailedScanWritesNoCacheEntry ==
    [][\A i \in 1..Len(ext_tasks) :
          (/\ ext_tasks[i].pc = "toc_llm"
           /\ i \in DOMAIN ext_tasks'
           /\ ext_tasks'[i].pc # "toc_llm"
           /\ ext_tasks'[i].toc.kind = "nonlist") => ext_cache' = ext_cache]_vars

(***************************************************************************)
(* Claims about reviews already returned                                   *)
(***************************************************************************)
\* C31 (as claimed): the reviews that an extraction call has returned to its
\* caller are not changed by the next extraction call: no field of them, in
\* particular not the url, differs after that call has started.
C31_ReturnedReviewsUnchanged ==
    [][(ext_pc = "returned" /\ ext_call' = ext_call + 1) =>
          \A k \in 1..Len(ext_valid) : ext_heap'[ext_valid[k]] = ext_heap[ext_valid[k]]]_vars

(***************************************************************************)
(* Claims about the keyword lists of the retrieval phase                   *)
(***************************************************************************)
\* how often x occurs in the sequence s
Occurrences(x, s) == Cardinality({i \in 1..Len(s) : s[i] = x})

\* C32 (as claimed): in every retrieval phase of an Action, the initial one
\* and the retry, each focus keyword of the strategy occurs at most once in
\* the keyword list, in the precedent keyword list and in the AI queries.
C32_FocusKeywordsAddedOnce ==
    \A k \in 1..Len(ctl_search_log) :
        \A f \in Range(ctl_strategy.focus_keywords) :
            /\ Occurrences(f, ctl_search_log[k].keywords) <= 1
            /\ Occurrences(f, ctl_search_log[k].prec_keywords) <= 1
            /\ Occurrences(f, ctl_search_log[k].ai_queries) <= 1

(***************************************************************************)
(* Claims about the response cache                                         *)
(***************************************************************************)
\* the calls of _fetch for url that hold a permit or wait for one
FetchPending(tasks, url) ==
    tasks[<<url, "waiting">>] + tasks[<<url, "get">>] + tasks[<<url, "text">>]

\* C33: the response cache changes only in the step in which a call of
\* _fetch ends with a response of status 200 whose body parsed, and then
\* holds that parsed response for its URL; a failing call leaves it
\* unchanged. A call of _fetch for a URL that is not cached goes on to the
\* semaphore and the network; a call for a cached URL returns the stored
\* response at once, with no request and no permit taken.
C33_CacheHoldsOnlySuccesses ==
    [][/\ fetch_cache' # fetch_cache =>
             /\ fetch_last'.event = "ok"
             /\ fetch_last'.content \in WellFormed
             /\ fetch_cache' = [fetch_cache EXCEPT ![fetch_last'.url] =
                                   [type |-> "dict", entries |-> fetch_last'.content]]
       /\ fetch_started' = fetch_started + 1 =>
             \/ /\ fetch_tasks' = fetch_tasks
                /\ fetch_value' = fetch_value
                /\ fetch_last'.event = "cached"
                /\ ~fetch_last'.network
                /\ fetch_cache[fetch_last'.url] # NotCached
                /\ fetch_last'.value = fetch_cache[fetch_last'.url]
             \/ \E url \in FetchUrls :
                   /\ fetch_cache[url] = NotCached
                   /\ FetchPending(fetch_tasks', url) = FetchPending(fetch_tasks, url) + 1]_vars

\* C33 witness: a cached response was returned while every permit was taken
\* and the other URL, whose calls have not succeeded, is still not cached
C33_Witness ==
    /\ fetch_last.event = "cached"
    /\ fetch_last.outcome = "returned"
    /\ fetch_last.value.type = "dict"
    /\ fetch_value = 0
    /\ \E url \in FetchUrls : fetch_cache[url] = NotCached

(***************************************************************************)
(* Claims about the release of the permits                                 *)
(***************************************************************************)
LlmWaiting == BagCardinality([t \in {x \in BagToSet(gen_tasks) : x.pc = "waiting"} |-> gen_tasks[t]])

\* C34: every permit is given back on every way out of _fetch and of
\* generate: the permits missing from a semaphore are exactly those of the
\* calls that are at an external request (or, for generate, between two
\* attempts), so a call that waits for a permit holds none; while a call
\* waits, a permit is free or a holder is at an external call that will end;
\* and once no call is pending all permits of both semaphores are free.
C34_PermitsAlwaysReleased ==
    /\ DOMAIN fetch_tasks # {} =>
          /\ fetch_value + HttpInFlight = FetchPermits
          /\ HttpWaiting > 0 => (fetch_value > 0 \/ HttpInFlight > 0)
          /\ HttpInFlight + HttpWaiting = 0 => fetch_value = FetchPermits
    /\ gen_value + gen_started > 0 =>
          /\ gen_value + LlmInFlight + LlmSleeping = LlmPermits
          /\ LlmWaiting > 0 => (gen_value > 0 \/ LlmInFlight + LlmSleeping > 0)
          /\ gen_tasks = EmptyBag => gen_value = LlmPermits

\* C34 witness: more calls of generate than permits were made, the last to
\* end took the error exit, and all permits are free again
C34_Witness ==
    /\ gen_started > LlmPermits
    /\ gen_last.event = "error"
    /\ gen_tasks = EmptyBag
    /\ gen_value = LlmPermits

(***************************************************************************)
(* Claims about the permit during the backoff                              *)
(***************************************************************************)
\* C35: a call of generate keeps its permit from its first attempt to its
\* return: the step that sends it into a backoff wait and the step that
\* wakes it for the next attempt leave the semaphore as it is. A call is
\* admitted only when fewer than 3 calls are at an attempt or in a backoff
\* wait, so while 3 calls are in backoff no permit is free and none is
\* admitted before one of the 3 has returned.
C35_PermitKeptAcrossBackoff ==
    [][gen_value + gen_started > 0 =>
          /\ LlmSleeping' # LlmSleeping =>
                /\ gen_value' = gen_value
                /\ LlmInFlight' + LlmSleeping' = LlmInFlight + LlmSleeping
                /\ LlmWaiting' = LlmWaiting
          /\ gen_value' < gen_value =>
                /\ LlmInFlight + LlmSleeping < LlmPermits
                /\ LlmInFlight' = LlmInFlight + 1
          /\ LlmSleeping = LlmPermits =>
                /\ gen_value = 0
                /\ LlmInFlight = 0
                /\ LlmWaiting' >= LlmWaiting]_vars

\* C35 witness: three calls are in a backoff wait, a fourth waits for a permit
C35_Witness ==
    /\ LlmSleeping = LlmPermits
    /\ LlmWaiting >= 1
    /\ gen_value = 0

(***************************************************************************)
(* Claims about the messages of run_analysis_stream                        *)
(***************************************************************************)
TerminalItems == {ResultItem, ErrorItem}

\* the items of a run in the order in which they were put, as far as they
\* were yielded or are still in the queue
RunItems == run_out \o run_queue

\* C36: the items of a run are log messages, then at most one terminal
\* message (a result or an error, never both), then the sentinel and nothing
\* after it; the sentinel is never yielded; once the worker has ended the
\* sentinel has been put, whatever way the worker ended; once the generator
\* has ended nothing is left to yield.
C36_LogsThenOneTerminalThenEnd ==
    run_variant \in RunVariants =>
        /\ \A i \in 1..Len(RunItems) :
              /\ RunItems[i] \in TerminalItems =>
                    /\ i < Len(RunItems) => (i + 1 = Len(RunItems) /\ RunItems[i + 1] = Sentinel)
                    /\ \A j \in 1..(i - 1) : RunItems[j] = LogItem
              /\ RunItems[i] = Sentinel => i = Len(RunItems)
        /\ \A i \in 1..Len(run_out) : run_out[i] # Sentinel
        /\ run_pc = "done" =>
              \/ run_consumer = "ended"
              \/ run_queue # <<>> /\ run_queue[Len(run_queue)] = Sentinel
        /\ run_consumer = "ended" => (run_pc = "done" /\ run_queue = <<>>)

\* C36 witness: a run that failed inside execute has ended: logs, then the
\* error message, were yielded and the generator found the sentinel
C36_Witness ==
    /\ run_variant = "pipeline"
    /\ run_consumer = "ended"
    /\ run_step > 0
    /\ Len(run_out) > 2
    /\ run_out[Len(run_out)] = ErrorItem
    /\ \A i \in 1..(Len(run_out) - 1) : run_out[i] = LogItem

(***************************************************************************)
(* Claims about repeated selections                                        *)
(***************************************************************************)
\* C37 (as claimed): the list select returns holds each candidate at most
\* once, whatever names the judgment service returned.
C37_SelectedAtMostOnce ==
    sel_pc = "returned" =>
        \A i, j \in 1..Len(sel_result) :
            sel_result[i].uid = sel_result[j].uid => i = j

(***************************************************************************)
(* Claims about chunks inside other chunks                                 *)
(***************************************************************************)
\* C38 (as claimed): every chunk after the first holds a text index that the
\* chunk before it does not hold: it ends after the chunk before it ends.
C38_NoChunkInsidePreceding ==
    chk_pc = "done" =>
        \A c \in 2..Len(chk_chunks) :
            \E x \in chk_chunks[c].start..(chk_chunks[c].end - 1) :
                ~(chk_chunks[c - 1].start <= x /\ x < chk_chunks[c - 1].end)

====
